---- MODULE Spec2Model ----
\* GeOptics: 2D geometric optics.  A model of the elements package
\* (vector, line, segment, regions, rays, sources, scene).
\*
\* Numbers.  The program computes with Python floats.  The model computes
\* with exact rationals <<num, den>> (den > 0, lowest terms); the scenes and
\* rays it draws are chosen so that every square root the program takes is
\* the root of a perfect square (3-4-5 directions, axis-parallel walls,
\* indices 1, 4/3 and 2), so no rounding is involved.  Two values outside
\* the rationals: Inf (float("inf")) and None (Python's None).
EXTENDS Integers, Sequences, FiniteSets, TLC

\* ---------------------------------------------------------------- numbers

RECURSIVE GCD(_, _)
GCD(a, b) == IF b = 0 THEN a ELSE GCD(b, a % b)

IAbs(a) == IF a < 0 THEN -a ELSE a

\* the rational n/d in lowest terms, d # 0
Rat(n, d) ==
    LET g == GCD(IAbs(n), IAbs(d))
        sg == IF d < 0 THEN -1 ELSE 1
    IN  <<sg * (n \div g), sg * (d \div g)>>

I(n) == <<n, 1>>
Inf == <<1, 0>>
None == <<0, 0>>
IsNum(a) == a[2] > 0

\* the common factor of two denominators, taken out before the products
DenGCD(p, q) == IF p = 0 \/ q = 0 THEN 1 ELSE GCD(IAbs(p), IAbs(q))
RAddG(a, b, g) == Rat(a[1] * (b[2] \div g) + b[1] * (a[2] \div g), (a[2] \div g) * b[2])
RMulG(a, b, g, h) == Rat((a[1] \div g) * (b[1] \div h), (a[2] \div h) * (b[2] \div g))

RAdd(a, b) == RAddG(a, b, DenGCD(a[2], b[2]))
RSub(a, b) == RAddG(a, <<-b[1], b[2]>>, DenGCD(a[2], b[2]))
RMul(a, b) == RMulG(a, b, DenGCD(a[1], b[2]), DenGCD(b[1], a[2]))
RDiv(a, b) == Rat(a[1] * b[2], a[2] * b[1])
RNeg(a) == <<-a[1], a[2]>>
RLt(a, b) == a[1] * b[2] < b[1] * a[2]
RGt(a, b) == RLt(b, a)
RAbs(a) == <<IAbs(a[1]), a[2]>>
RSq(a) == RMul(a, a)

\* Floats beyond the numbers: float("inf"), its negative, and nan, with the
\* arithmetic of IEEE 754 that Python's *, +, -, / and >= follow
NaN == <<0, -1>>

float_mul(a, b) ==
    IF a = NaN \/ b = NaN THEN NaN
    ELSE IF IsNum(a) /\ IsNum(b) THEN RMul(a, b)
    ELSE IF a[1] = 0 \/ b[1] = 0 THEN NaN
    ELSE IF (a[1] > 0) = (b[1] > 0) THEN Inf ELSE RNeg(Inf)

float_add(a, b) ==
    IF a = NaN \/ b = NaN THEN NaN
    ELSE IF IsNum(a) /\ IsNum(b) THEN RAdd(a, b)
    ELSE IF IsNum(b) THEN a
    ELSE IF IsNum(a) THEN b
    ELSE IF a = b THEN a ELSE NaN

float_sub(a, b) == float_add(a, IF b = NaN THEN NaN ELSE RNeg(b))

\* a / b, b not zero
float_div(a, b) ==
    IF a = NaN \/ b = NaN THEN NaN
    ELSE IF IsNum(a) /\ IsNum(b) THEN RDiv(a, b)
    ELSE IF IsNum(b) THEN (IF (a[1] > 0) = (b[1] > 0) THEN Inf ELSE RNeg(Inf))
    ELSE IF IsNum(a) THEN I(0)
    ELSE NaN

\* a >= b: false when one of them is nan
float_ge(a, b) == a # NaN /\ b # NaN /\ ~RLt(a, b)

\* integer square root by bisection: the r in lo..hi with r*r <= k < (r+1)^2
RECURSIVE ISqrtIn(_, _, _)
ISqrtIn(k, lo, hi) ==
    IF lo >= hi THEN lo
    ELSE LET mid == (lo + hi + 1) \div 2
         IN  IF mid * mid <= k THEN ISqrtIn(k, mid, hi)
                               ELSE ISqrtIn(k, lo, mid - 1)

\* exact square root of a perfect square; undefined otherwise
ISqrt(k) == CHOOSE r \in {ISqrtIn(k, 0, IF k < 46340 THEN k ELSE 46340)} : r * r = k

\* math.sqrt on the rationals the model meets
RSqrt(a) == <<ISqrt(a[1]), ISqrt(a[2])>>

\* math.copysign(a, b), a >= 0
RCopySign(a, b) == IF b[1] < 0 THEN RNeg(a) ELSE a

\* ------------------------------------------------------- vector.py, Point

Point(x, y) == [x |-> x, y |-> y]
Vector(x, y) == [x |-> x, y |-> y]

\* Vector_M1M2.__init__
Vector_M1M2(M1, M2) == Vector(RSub(M2.x, M1.x), RSub(M2.y, M1.y))

\* Vector.norm
norm(v) == RSqrt(RAdd(RMul(v.x, v.x), RMul(v.y, v.y)))

\* the two divisions of Vector.normalize
VDiv(v, k) == Vector(RDiv(v.x, k), RDiv(v.y, k))

\* Vector.normalize
normalize(v) == VDiv(v, norm(v))

\* Vector.normal()
normal(v) == Vector(v.y, RNeg(v.x))

\* Vector.normal(normalized=True)
normalN(v) == normalize(Vector(v.y, RNeg(v.x)))

\* Vector.colinear
colinear(v, w) == RSub(RMul(v.x, w.y), RMul(v.y, w.x)) = I(0)

\* Vector.__mul__ (scalar product of two vectors)
Dot(v, w) == RAdd(RMul(v.x, w.x), RMul(v.y, w.y))

\* Vector.__add__, Vector.__mul__ by a number
VAdd(v, w) == Vector(RAdd(v.x, w.x), RAdd(v.y, w.y))
VScale(v, k) == Vector(RMul(v.x, k), RMul(v.y, k))

\* Vector.theta_x, atan2(y, x).  The model measures the angle along the
\* square |x| + |y| = 1 instead of the circle: y / (|x| + |y|) on the right
\* half, 2 or -2 minus that on the left half.  The measure lies in (-2, 2],
\* grows with atan2(y, x), and is the angle in quarter turns (units of
\* pi/2) for the vectors parallel to an axis: 0, 1, 2 (pi), -1.  Every
\* comparison of two angles comes out as with atan2.
theta_x(v) ==
    IF v.x[1] = 0 /\ v.y[1] = 0 THEN I(0)
    ELSE IF v.x[1] >= 0 THEN RDiv(v.y, RAdd(RAbs(v.x), RAbs(v.y)))
    ELSE IF v.y[1] >= 0 THEN RSub(I(2), RDiv(v.y, RAdd(RAbs(v.x), RAbs(v.y))))
    ELSE RSub(I(-2), RDiv(v.y, RAdd(RAbs(v.x), RAbs(v.y))))

\* math.pi in that measure
pi == I(2)

\* Floats.  Where a claim is about the exact value of a sum, the model adds
\* as a binary float does, with a mantissa of FMant bits in place of the 53
\* of a float64: the exact sum, rounded to the nearest value with FMant
\* significant bits, ties to the even mantissa.
FMant == 5
Pow2(k) == 2 ^ k

\* the nearest integer to a rational q >= 0, ties to even
RoundHalfEven(q) ==
    LET f == q[1] \div q[2]
        twice == 2 * (q[1] % q[2])
    IN  IF twice < q[2] THEN f
        ELSE IF twice > q[2] THEN f + 1
        ELSE IF f % 2 = 0 THEN f ELSE f + 1

\* q > 0 rounded to FMant significant bits; unit is the weight of the last
\* bit, q the value in that unit
RECURSIVE FRoundPos(_, _)
FRoundPos(q, unit) ==
    IF ~RLt(q, I(Pow2(FMant))) THEN FRoundPos(RDiv(q, I(2)), RMul(unit, I(2)))
    ELSE IF RLt(q, I(Pow2(FMant - 1))) THEN FRoundPos(RMul(q, I(2)), RDiv(unit, I(2)))
    ELSE RMul(I(RoundHalfEven(q)), unit)

FRound(q) ==
    IF q[1] = 0 THEN q
    ELSE IF q[1] < 0 THEN RNeg(FRoundPos(RNeg(q), I(1)))
    ELSE FRoundPos(q, I(1))

\* float +
FAdd(a, b) == FRound(RAdd(a, b))

\* Point.translate(dx=dx, dy=dy): self.x += dx, self.y += dy
PTranslate(p, dx, dy) == Point(FAdd(p.x, dx), FAdd(p.y, dy))

\* ------------------------------------------------------------------ line.py

Line(p, u) == [p |-> p, u |-> u]
Intersection(p, s, eN, eT) == [p |-> p, s |-> s, eN |-> eN, eT |-> eT]

\* Line.point
LinePoint(l, s) == Point(RAdd(l.p.x, RMul(s, l.u.x)), RAdd(l.p.y, RMul(s, l.u.y)))

\* Line.intersection, the parameter s of the crossing point on other
IntersectionS(self, other) ==
    RDiv(RSub(RMul(RSub(self.p.x, other.p.x), self.u.y),
              RMul(RSub(self.p.y, other.p.y), self.u.x)),
         RSub(RMul(other.u.x, self.u.y), RMul(other.u.y, self.u.x)))

\* a test on s that forgets sign_of_s
IntersectionAnySign(self, other, sign_of_s, s) ==
    IF s # I(0)
    THEN <<Intersection(LinePoint(other, s), s, normalN(self.u), normalize(self.u))>>
    ELSE <<>>

\* Line.intersection, the test on s and the result
IntersectionIf(self, other, sign_of_s, s) ==
    IF (sign_of_s = 0 /\ s # I(0)) \/ (s[1] * sign_of_s > 0)
    THEN <<Intersection(LinePoint(other, s), s, normalN(self.u), normalize(self.u))>>
    ELSE <<>>

\* Line.intersection(self, other, sign_of_s): the list of intersections
LineIntersection(self, other, sign_of_s) ==
    IF colinear(other.u, self.u) THEN <<>>
    ELSE IntersectionIf(self, other, sign_of_s, IntersectionS(self, other))

\* --------------------------------------------------------------- segment.py

Segment(M1, M2) == [Class |-> "Segment", M1 |-> M1, M2 |-> M2]

\* the bounds test of Segment.intersection: is Mi outside [M1, M2]
SegmentOutside(seg, Mi) ==
    IF RGt(RAbs(RSub(seg.M2.x, seg.M1.x)), RAbs(RSub(seg.M2.y, seg.M1.y)))
    THEN IF RGt(seg.M2.x, seg.M1.x)
         THEN RLt(Mi.x, seg.M1.x) \/ RGt(Mi.x, seg.M2.x)
         ELSE RLt(Mi.x, seg.M2.x) \/ RGt(Mi.x, seg.M1.x)
    ELSE IF RGt(seg.M2.y, seg.M1.y)
         THEN RLt(Mi.y, seg.M1.y) \/ RGt(Mi.y, seg.M2.y)
         ELSE RLt(Mi.y, seg.M2.y) \/ RGt(Mi.y, seg.M1.y)

\* Segment.intersection, after the call of Line.intersection: the result is
\* kept when the point lies within the bounds
SegmentBounded(seg, result) ==
    IF result = <<>> THEN <<>>
    ELSE IF SegmentOutside(seg, result[1].p) THEN <<>> ELSE result

\* Segment.intersection
SegmentIntersection(seg, other, sign_of_s) ==
    SegmentBounded(seg, LineIntersection(Line(seg.M1, Vector_M1M2(seg.M1, seg.M2)),
                                         other, sign_of_s))

\* ------------------------------------------------------------------- arc.py

\* Arc.center: the list Line(Mm, Vch).intersection(Line(M1, Vtg)), of which
\* "intersection, = ..." takes the only element (ValueError when the list
\* is empty: M1 = M2, a tangent along the chord, or a centre at M1)
CenterList(M1, M2, tangent) ==
    LineIntersection(Line(Point(RMul(RAdd(M1.x, M2.x), Rat(1, 2)),
                                RMul(RAdd(M1.y, M2.y), Rat(1, 2))),
                          normal(Vector_M1M2(M1, M2))),
                     Line(M1, normal(tangent)), 0)

\* Arc.__init__, the centre being known: radius, theta1, theta2, ccw
ArcAround(M1, M2, tangent, C) ==
    [Class |-> "Arc", M1 |-> M1, M2 |-> M2, tangent |-> tangent, C |-> C,
     r |-> norm(Vector_M1M2(M1, C)),
     theta1 |-> theta_x(Vector_M1M2(C, M1)),
     theta2 |-> theta_x(Vector_M1M2(C, M2)),
     ccw |-> RGt(RSub(RMul(RSub(M1.x, C.x), tangent.y),
                      RMul(RSub(M1.y, C.y), tangent.x)), I(0))]

\* Arc(M1, M2, tangent)
Arc(M1, M2, tangent) == ArcAround(M1, M2, tangent, CenterList(M1, M2, tangent)[1].p)

\* Arc.__contains__, the test on theta_i: the range that the branch tests
InTestedRange(arc, theta_i) ==
    IF RLt(arc.theta2, arc.theta1)
    THEN RLt(arc.theta2, theta_i) /\ RLt(theta_i, arc.theta1)
    ELSE \/ RLt(arc.theta2, theta_i) /\ ~RGt(theta_i, pi)
         \/ RGt(theta_i, RNeg(pi)) /\ RLt(theta_i, arc.theta1)

\* Arc.__contains__(M): what the method returns, "True", "False" or "None"
\* (it ends without a return statement outside the tested range)
ArcContains(arc, M) ==
    IF InTestedRange(arc, theta_x(Vector_M1M2(arc.C, M)))
    THEN IF arc.ccw THEN "False" ELSE "True"
    ELSE "None"

\* "M in self": the truth value of what __contains__ returns
ArcIn(arc, M) == ArcContains(arc, M) = "True"

\* Arc.intersection: the two roots for delta > 0, q being -b -+ sqrt(delta)
ArcTwoRoots(a, c, q) == <<RDiv(q, a), RDiv(c, q)>>

\* Arc.intersection: s_list, from a, b, c and the reduced discriminant
ArcRoots(a, b, c, delta) ==
    IF RGt(delta, I(0))
    THEN IF ~RLt(b, I(0)) THEN ArcTwoRoots(a, c, RSub(RNeg(b), RSqrt(delta)))
         ELSE ArcTwoRoots(a, c, RAdd(RNeg(b), RSqrt(delta)))
    ELSE IF delta = I(0) THEN <<RDiv(RNeg(b), a)>>
    ELSE <<>>

ArcRootsOf(a, b, c) == ArcRoots(a, b, c, RSub(RSq(b), RMul(a, c)))

\* Arc.intersection: s_list for the line other
ArcSList(arc, other) ==
    IF Dot(other.u, other.u) = I(0) THEN <<>>
    ELSE ArcRootsOf(Dot(other.u, other.u),
                    Dot(other.u, Vector_M1M2(arc.C, other.p)),
                    RSub(Dot(Vector_M1M2(arc.C, other.p), Vector_M1M2(arc.C, other.p)),
                         RSq(arc.r)))

\* the intersection at M, eN being the unit vector from C to M
ArcIntersectionAt(M, s, eN) == Intersection(M, s, eN, normalN(eN))

\* Arc.intersection, the body of "for s in s_list", M being other.point(s)
ArcHit(arc, sign_of_s, s, M) ==
    IF ArcIn(arc, M) /\ s[1] * sign_of_s >= 0
    THEN <<ArcIntersectionAt(M, s, normalize(Vector_M1M2(arc.C, M)))>>
    ELSE <<>>

\* Arc.intersection, the loop "for s in s_list"
RECURSIVE ArcHits(_, _, _, _)
ArcHits(arc, other, sign_of_s, s_list) ==
    IF s_list = <<>> THEN <<>>
    ELSE ArcHit(arc, sign_of_s, Head(s_list), LinePoint(other, Head(s_list)))
         \o ArcHits(arc, other, sign_of_s, Tail(s_list))

\* Arc.intersection(other, sign_of_s)
ArcIntersection(arc, other, sign_of_s) ==
    ArcHits(arc, other, sign_of_s, ArcSList(arc, other))

\* Arc.config
ArcConfig(arc) ==
    [Class |-> "Arc", M1 |-> [x |-> arc.M1.x, y |-> arc.M1.y],
     M2 |-> [x |-> arc.M2.x, y |-> arc.M2.y],
     tangent |-> [x |-> arc.tangent.x, y |-> arc.tangent.y]]

\* Arc.translate: M1, M2 and C move
ArcTranslate(arc, dx, dy) ==
    [arc EXCEPT !.M1 = PTranslate(arc.M1, dx, dy),
                !.M2 = PTranslate(arc.M2, dx, dy),
                !.C = PTranslate(arc.C, dx, dy)]

\* Segment.translate
SegmentTranslate(seg, dx, dy) ==
    [seg EXCEPT !.M1 = PTranslate(seg.M1, dx, dy),
                !.M2 = PTranslate(seg.M2, dx, dy)]

\* --------------------------------------------------------------- regions.py

\* a tag that was not given (Python's None)
NoTag == "<None>"

\* a Region instance.  The base Region (class "Region") has an index and no
\* boundary; a Polycurve has the vertices M and the curves.
RegionObj(Class, n, tag, M, curves) ==
    [born |-> TRUE, Class |-> Class, n |-> n, tag |-> tag, M |-> M, curves |-> curves]

NoRegion ==
    [born |-> FALSE, Class |-> "", n |-> None, tag |-> NoTag, M |-> <<>>, curves |-> <<>>]

\* Polycurve.start
start(r, M_start) == [r EXCEPT !.M = <<M_start>>, !.curves = <<>>]

\* Polycurve.add_line
add_line(r, M_next) ==
    [r EXCEPT !.curves = Append(r.curves, Segment(r.M[Len(r.M)], M_next)),
              !.M = Append(r.M, M_next)]

\* Polycurve.add_arc
add_arc(r, M_next, tangent) ==
    [r EXCEPT !.curves = Append(r.curves, Arc(r.M[Len(r.M)], M_next, tangent)),
              !.M = Append(r.M, M_next)]

\* Polycurve.close
close(r) == [r EXCEPT !.curves = Append(r.curves, Segment(r.M[Len(r.M)], r.M[1]))]

\* the curve's own intersection method
CurveIntersection(curve, other, sign_of_s) ==
    IF curve.Class = "Arc" THEN ArcIntersection(curve, other, sign_of_s)
    ELSE SegmentIntersection(curve, other, sign_of_s)

\* Polycurve.intersection: the curves' intersections, in curve order
RECURSIVE PolycurveIntersection(_, _, _)
PolycurveIntersection(curves, other, sign_of_s) ==
    IF curves = <<>> THEN <<>>
    ELSE CurveIntersection(Head(curves), other, sign_of_s)
         \o PolycurveIntersection(Tail(curves), other, sign_of_s)

\* region.intersection: Region.intersection returns [], Polycurve overrides it
RegionIntersection(r, other, sign_of_s) ==
    IF r.Class = "Polycurve" THEN PolycurveIntersection(r.curves, other, sign_of_s)
    ELSE <<>>

\* Region.contains(line=line)
contains(r, line) == Len(RegionIntersection(r, line, 1)) % 2 = 1

\* Segment.config, Point.config
PointConfig(p) == [x |-> p.x, y |-> p.y]
SegmentConfig(seg) ==
    [Class |-> "Segment", M1 |-> PointConfig(seg.M1), M2 |-> PointConfig(seg.M2)]

\* Point.from_config
PointFromConfig(c) == Point(c.x, c.y)

\* curve.config
CurveConfig(curve) ==
    IF curve.Class = "Arc" THEN ArcConfig(curve) ELSE SegmentConfig(curve)

\* Polycurve.config
PolycurveConfig(r) ==
    [Class |-> "Polycurve", tag |-> r.tag, n |-> r.n,
     curves |-> [i \in 1..Len(r.curves) |-> CurveConfig(r.curves[i])]]

\* the body of the loop of Polycurve.from_config
AddCurve(r, curve_config) ==
    IF curve_config.Class = "Arc"
    THEN add_arc(r, PointFromConfig(curve_config.M2),
                 Vector(curve_config.tangent.x, curve_config.tangent.y))
    ELSE add_line(r, PointFromConfig(curve_config.M2))

\* the loop of Polycurve.from_config over curves_config
RECURSIVE AddCurves(_, _)
AddCurves(r, curves_config) ==
    IF curves_config = <<>> THEN r
    ELSE AddCurves(AddCurve(r, Head(curves_config)), Tail(curves_config))

\* curve.translate
CurveTranslate(curve, dx, dy) ==
    IF curve.Class = "Arc" THEN ArcTranslate(curve, dx, dy)
    ELSE SegmentTranslate(curve, dx, dy)

\* a translate that moves the vertices self.M and leaves the curves
TranslateVertices(r, dx, dy) ==
    [r EXCEPT !.M = [i \in 1..Len(r.M) |-> PTranslate(r.M[i], dx, dy)]]

\* Polycurve.translate(dx=dx, dy=dy): the curves move, self.M stays
translate(r, dx, dy) ==
    [r EXCEPT !.curves = [i \in 1..Len(r.curves) |-> CurveTranslate(r.curves[i], dx, dy)]]

\* Polycurve.from_config: the new instance (Region.__init__ adds it to the
\* scene, see PolycurveNew)
PolycurveFromConfig(config) ==
    LET r0 == RegionObj("Polycurve", None, config.tag, <<>>, <<>>)
        r1 == start(r0, PointFromConfig(config.curves[1].M1))
        r2 == [r1 EXCEPT !.tag = config.tag, !.n = config.n]
    IN  AddCurves(r2, config.curves)

\* ------------------------------------------------- the regions the model draws

\* a closed polygon through the given vertices, as the user builds it:
\* Polycurve(n, tag), start, add_line ..., close
RECURSIVE AddLines(_, _)
AddLines(r, pts) ==
    IF pts = <<>> THEN r ELSE AddLines(add_line(r, Head(pts)), Tail(pts))

Polygon(n, tag, pts) ==
    close(AddLines(start(RegionObj("Polycurve", n, tag, <<>>, <<>>), Head(pts)),
                   Tail(pts)))

\* the rectangle [x1, x2] x [y1, y2], drawn from its lower left corner upwards
Box(n, tag, x1, x2, y1, y2) ==
    Polygon(n, tag, <<Point(I(x1), I(y1)), Point(I(x1), I(y2)),
                      Point(I(x2), I(y2)), Point(I(x2), I(y1))>>)

\* W: glass of index 4/3;  V: a box of index 1, like the background, that
\* overlaps W;  G: a box of index 2, away from the others;  T: a right
\* triangle with sides 3, 4, 5;  D: a box whose right side is a half circle
\* of radius 5, drawn clockwise as in tests/conftest.py;  E: a Polycurve
\* after start(), without a curve yet;  N: a box drawn on Polycurve(scene=scene),
\* whose n is left to its default, None
Template(t) ==
    CASE t = "W" -> Box(Rat(4, 3), "w", 4, 8, 0, 8)
      [] t = "V" -> Box(I(1), NoTag, 2, 6, 0, 12)
      [] t = "G" -> Box(I(2), "g", -16, -10, 0, 8)
      [] t = "T" -> Polygon(Rat(3, 2), "t", <<Point(I(20), I(0)), Point(I(23), I(0)),
                                              Point(I(20), I(4))>>)
      [] t = "D" -> close(add_arc(AddLines(start(RegionObj("Polycurve", Rat(3, 2), "d",
                                                           <<>>, <<>>),
                                                 Point(I(0), I(0))),
                                           <<Point(I(0), I(10)), Point(I(6), I(10))>>),
                                  Point(I(6), I(0)), Vector(I(1), I(0))))
      [] t = "N" -> Box(None, NoTag, 10, 14, 0, 20)
      [] t = "E" -> start(RegionObj("Polycurve", I(1), NoTag, <<>>, <<>>),
                          Point(I(0), I(0)))

\* the regions a ray is sent through, and all the shapes
Templates == {"W", "V", "G"}
Shapes == Templates \cup {"T"}

\* ------------------------------------------------------------------ rays.py

\* the default initial length s0 of Ray.__init__
DefaultS0 == 100

\* Part.__init__
Part(line, s, n) == [line |-> line, s |-> s, n |-> n]

\* Line() without arguments
DefaultLine == Line(Point(I(0), I(0)), Vector(I(1), I(0)))

\* an argument that was not given (None) where a Line is expected
NoLine == Line(Point(None, None), Vector(None, None))

\* Ray.__init__(line0, s0, source, n, tag); s0 defaults to 100
NewRay(line0, s0, n, tag) ==
    [parts |-> <<Part(IF line0 = NoLine THEN DefaultLine ELSE line0, s0, n)>>,
     tag |-> tag]

\* Line.config, Part.config, Ray.config
LineConfig(l) == [p |-> PointConfig(l.p), u |-> [x |-> l.u.x, y |-> l.u.y]]
PartConfig(part) == [line |-> LineConfig(part.line), s |-> part.s, n |-> part.n]
RayConfig(ray) == [parts |-> [i \in 1..Len(ray.parts) |-> PartConfig(ray.parts[i])]]

\* Line.from_config, Part.from_config
LineFromConfig(c) == Line(PointFromConfig(c.p), Vector(c.u.x, c.u.y))
PartFromConfig(c) == Part(LineFromConfig(c.line), c.s, c.n)

\* Ray.from_config(config, source, tag): tag is the caller's tag, or the
\* config's 'tag' entry when the caller gives none (config.get: None when
\* the entry is missing)
RayFromConfig(config, tag) ==
    [parts |-> [i \in 1..Len(config.parts) |-> PartFromConfig(config.parts[i])],
     tag |-> IF tag # NoTag THEN tag
             ELSE IF "tag" \in DOMAIN config THEN config.tag ELSE NoTag]

\* an add_part that starts the new part where the last part starts
AddPartAtStart(parts, u, s, n) ==
    Append(parts, Part(Line(parts[Len(parts)].line.p, u), s, n))

\* Ray.add_part(u, s, n)
add_part(parts, u, s, n) ==
    LET last == parts[Len(parts)]
    IN  Append(parts, Part(Line(LinePoint(last.line, last.s), u), s, n))

\* a change_s that lengthens a finite part by new_s
ChangeSBy(parts, part_index, new_s) ==
    [parts EXCEPT ![part_index].s = IF @ = Inf THEN new_s ELSE RAdd(@, new_s)]

\* Ray.change_s(part_index, new_s), part_index counted from 1 here
change_s(parts, part_index, new_s) == [parts EXCEPT ![part_index].s = new_s]

\* Ray.change_line_0
change_line_0(parts, line) == [parts EXCEPT ![1].line = line]

\* ---------------------------------------------- line.py, Line.interpolate

\* cos and sin of a whole number of quarter turns
CosQ(a) == CASE a[2] = 1 /\ a[1] % 4 = 0 -> I(1)
             [] a[2] = 1 /\ a[1] % 4 = 2 -> I(-1)
             [] a[2] = 1 /\ a[1] % 2 = 1 -> I(0)
SinQ(a) == CASE a[2] = 1 /\ a[1] % 4 = 1 -> I(1)
             [] a[2] = 1 /\ a[1] % 4 = 3 -> I(-1)
             [] a[2] = 1 /\ a[1] % 2 = 0 -> I(0)

\* Line.interpolate(line_start, line_end, x)
interpolate(line_start, line_end, x) ==
    LET w == RSub(I(1), x)
        p == Point(RAdd(RMul(line_start.p.x, w), RMul(line_end.p.x, x)),
                   RAdd(RMul(line_start.p.y, w), RMul(line_end.p.y, x)))
        angle_start == theta_x(line_start.u)
        angle_end0 == theta_x(line_end.u)
        angle_end == IF RLt(angle_end0, angle_start) THEN RAdd(angle_end0, I(4))
                     ELSE angle_end0
        angle == RAdd(RMul(w, angle_start), RMul(x, angle_end))
    IN  Line(p, Vector(CosQ(angle), SinQ(angle)))

\* --------------------------------------------------------------- sources.py

\* a Source instance; N_inter is an attribute of a Beam only
SourceObj(Class, tag, rays, N_inter) ==
    [born |-> TRUE, Class |-> Class, tag |-> tag, rays |-> rays, N_inter |-> N_inter]

NoSource == [born |-> FALSE, Class |-> "", tag |-> NoTag, rays |-> <<>>, N_inter |-> 0]

\* Source.config
SourceConfig(src) ==
    [Class |-> src.Class, tag |-> src.tag,
     rays |-> [i \in 1..Len(src.rays) |-> RayConfig(src.rays[i])]]

\* SingleRay.__init__(line0, s0, scene, tag), line0 given
SingleRay(line0, s0, tag) == SourceObj("SingleRay", tag, <<NewRay(line0, s0, None, NoTag)>>, 0)

\* a Ray(source=self), as Beam makes them
BlankRay == NewRay(NoLine, I(DefaultS0), None, NoTag)

\* one turn of the loop at the end of Beam.set: ray i (from 0) of N_total
\* gets the interpolated starting line and length, x = i / (N_total - 1)
SetRayAt(ray, x, line_start, line_end, s_start, s_end) ==
    [ray EXCEPT !.parts =
        change_s(change_line_0(ray.parts, interpolate(line_start, line_end, x)), 1,
                 RAdd(RMul(RSub(I(1), x), s_start), RMul(x, s_end)))]

\* the loop at the end of Beam.set, from ray i on (i from 1 here)
RECURSIVE SetRays(_, _, _, _, _, _)
SetRays(rays, i, line_start, line_end, s_start, s_end) ==
    IF i > Len(rays) THEN rays
    ELSE SetRays([rays EXCEPT ![i] = SetRayAt(rays[i], RDiv(I(i - 1), I(Len(rays) - 1)),
                                              line_start, line_end, s_start, s_end)],
                 i + 1, line_start, line_end, s_start, s_end)

\* a Beam.set that takes N_inter and leaves the list of rays as long as it is
BeamSetNoResize(beam, line_start, line_end, s_start, s_end, N_inter) ==
    [beam EXCEPT !.N_inter = IF N_inter = -1 THEN Len(beam.rays) - 2 ELSE N_inter,
                 !.rays = SetRays(beam.rays, 1,
                                  IF line_start = NoLine THEN beam.rays[1].parts[1].line
                                  ELSE line_start,
                                  IF line_end = NoLine
                                  THEN beam.rays[Len(beam.rays)].parts[1].line ELSE line_end,
                                  IF s_start = None THEN beam.rays[1].parts[1].s ELSE s_start,
                                  IF s_end = None THEN beam.rays[Len(beam.rays)].parts[1].s
                                  ELSE s_end)]

\* a Beam.set that puts the new rays after the last one and takes the rays
\* it removes from the end
BeamSetAtEnd(beam, line_start, line_end, s_start, s_end, N_inter) ==
    LET rays == beam.rays
        len == Len(rays)
        ls == IF line_start = NoLine THEN rays[1].parts[1].line ELSE line_start
        le == IF line_end = NoLine THEN rays[len].parts[1].line ELSE line_end
        ss == IF s_start = None THEN rays[1].parts[1].s ELSE s_start
        se == IF s_end = None THEN rays[len].parts[1].s ELSE s_end
        N == IF N_inter = -1 THEN len - 2 ELSE N_inter
        N_total == N + 2
        rays1 == IF N_total > len
                 THEN rays \o [k \in 1..(N_total - len) |-> BlankRay]
                 ELSE SubSeq(rays, 1, N_total)
    IN  [beam EXCEPT !.N_inter = N,
                     !.rays = SetRays(rays1, 1, ls, le, ss, se)]

\* Beam.set(line_start, line_end, s_start, s_end, N_inter); an argument that
\* is not given is NoLine, None, or -1 for N_inter
BeamSet(beam, line_start, line_end, s_start, s_end, N_inter) ==
    LET rays == beam.rays
        len == Len(rays)
        ls == IF line_start = NoLine THEN rays[1].parts[1].line ELSE line_start
        le == IF line_end = NoLine THEN rays[len].parts[1].line ELSE line_end
        ss == IF s_start = None THEN rays[1].parts[1].s ELSE s_start
        se == IF s_end = None THEN rays[len].parts[1].s ELSE s_end
        N == IF N_inter = -1 THEN len - 2 ELSE N_inter
        N_total == N + 2
        rays1 == IF N_total > len
                 THEN SubSeq(rays, 1, len - 1)
                      \o [k \in 1..(N_total - len) |-> BlankRay]
                      \o <<rays[len]>>
                 ELSE IF N_total < len
                 THEN SubSeq(rays, 1, N_total - 1) \o <<rays[len]>>
                 ELSE rays
    IN  [beam EXCEPT !.N_inter = N,
                     !.rays = SetRays(rays1, 1, ls, le, ss, se)]

\* Beam.__init__(line_start, s_start, line_end, s_end, N_inter, scene, tag)
Beam(line_start, s_start, line_end, s_end, N_inter, tag) ==
    BeamSet(SourceObj("Beam", tag, [k \in 1..(N_inter + 2) |-> BlankRay], N_inter),
            line_start, line_end, s_start, s_end, -1)

\* the rays Source.from_config reads from the config, each given the tag
RaysFromConfig(rays_config, tag) ==
    [i \in 1..Len(rays_config) |-> RayFromConfig(rays_config[i], tag)]

\* Source.from_config for cls = SingleRay, and Beam.from_config which calls
\* it for cls = Beam and then set(): the new instance.  cls(scene=scene) is
\* called without the tag.
SourceFromConfig(config) ==
    LET tag == IF "tag" \in DOMAIN config THEN config.tag ELSE NoTag
        rays == RaysFromConfig(config.rays, tag)
    IN  IF config.Class = "Beam"
        THEN BeamSet([Beam(NoLine, None, NoLine, None, 0, NoTag) EXCEPT !.rays = rays],
                     NoLine, NoLine, None, None, -1)
        ELSE SourceObj("SingleRay", NoTag, rays, 0)

\* Part.translate, Line.translate: the starting point moves
PartTranslate(part, dx, dy) == [part EXCEPT !.line.p = PTranslate(part.line.p, dx, dy)]

\* Ray.translate
RayTranslate(ray, dx, dy) ==
    [ray EXCEPT !.parts = [k \in 1..Len(ray.parts) |-> PartTranslate(ray.parts[k], dx, dy)]]

\* Source.translate(dx=dx, dy=dy)
SourceTranslate(src, dx, dy) ==
    [src EXCEPT !.rays = [i \in 1..Len(src.rays) |-> RayTranslate(src.rays[i], dx, dy)]]

\* ------------------------------------------------------------------ state

\* the number of Region instances (beside the background) and of Source
\* instances the model lets the program create
MaxRegions == 2
MaxSources == 2

RegionIds == 1..MaxRegions
SourceIds == 1..MaxSources

\* the instance scene.background
Background == 0

VARIABLES
    robj,       \* the Region instances: robj[0] is scene.background
    regions,    \* scene.regions: a list of Region instances
    sobj,       \* the Source instances
    sources,    \* scene.sources: a list of Source instances
    pc,         \* "idle", or where Scene.propagate stands: "next", "loop"
    todo,       \* Scene.propagate: the rays still to propagate, <<source, index>>
    cur,        \* Ray.propagate: the ray, current_region and cont
    call,       \* the last call made: the operation and the exception it raised
    probe,      \* the last query of the geometry (see SpecGeom)
    gui         \* the Qt backend: the items of the graphical scene, a Signal

vars == <<robj, regions, sobj, sources, pc, todo, cur, call, probe, gui>>

\* the Qt backend before anything is shown or connected: scene.g.items() is
\* empty, the Signal has no subscriber, no slot was called and no object that
\* owns a slot was deleted; last is the argument of the last call on the Signal
NoGui == [items |-> {}, subscribers |-> <<>>, called |-> <<>>, deleted |-> {},
          last |-> ""]

\* the scene as a value
St == [robj |-> robj, regions |-> regions, sobj |-> sobj, sources |-> sources]

InSeq(x, seq) == \E i \in 1..Len(seq) : seq[i] = x

\* list.remove(x), x in the list: without the first occurrence of x
RECURSIVE ListRemove(_, _)
ListRemove(seq, x) ==
    IF seq = <<>> THEN <<>>
    ELSE IF Head(seq) = x THEN Tail(seq)
    ELSE <<Head(seq)>> \o ListRemove(Tail(seq), x)

\* a new instance is the first one not yet created
FreeRegions(st) == {i \in RegionIds : ~st.robj[i].born}
FreeSources(st) == {i \in SourceIds : ~st.sobj[i].born}
Min(S) == CHOOSE x \in S : \A y \in S : x <= y

\* ----------------------------------------------------------------- scene.py

\* a scan that keeps the last region that contains the point
RECURSIVE RegionAtLast(_, _, _)
RegionAtLast(ro, rgs, line) ==
    IF rgs = <<>> THEN Background
    ELSE IF contains(ro[rgs[Len(rgs)]], line) THEN rgs[Len(rgs)]
    ELSE RegionAtLast(ro, SubSeq(rgs, 1, Len(rgs) - 1), line)

\* Scene.region_at: the scan over self.regions
RECURSIVE RegionAtIn(_, _, _)
RegionAtIn(ro, rgs, line) ==
    IF rgs = <<>> THEN Background
    ELSE IF contains(ro[Head(rgs)], line) THEN Head(rgs)
    ELSE RegionAtIn(ro, Tail(rgs), line)

\* Scene.region_at(line=line)
region_at(line) == RegionAtIn(robj, regions, line)

\* Scene.region_at(point): Region.contains builds Line(p=point, u=None), and
\* Line.__init__ takes Vector(1, 0) for u
region_at_point(point) == region_at(Line(point, Vector(I(1), I(0))))

\* Scene.config
SceneConfigOf(st) ==
    [Regions |-> [i \in 1..Len(st.regions) |-> PolycurveConfig(st.robj[st.regions[i]])],
     Sources |-> [i \in 1..Len(st.sources) |-> SourceConfig(st.sobj[st.sources[i]])]]

\* the scene can export its config (a base Region has no config property,
\* and a Polycurve has no attribute curves before start())
CanExport(st) ==
    \A i \in 1..Len(st.regions) :
        st.robj[st.regions[i]].Class = "Polycurve" /\ st.robj[st.regions[i]].M # <<>>

\* the result of a call: the scene after it and the exception it raised
Ok(st) == [st |-> st, err |-> "none"]
Raise(st, e) == [st |-> st, err |-> e]

\* cls.from_config(item_config, scene=self) for a region class: the new
\* instance is added to the scene by Region.__init__
NewRegionFromConfig(st, item_config) ==
    LET id == Min(FreeRegions(st))
    IN  [st EXCEPT !.robj[id] = PolycurveFromConfig(item_config),
                   !.regions = Append(st.regions, id)]

\* cls.from_config(item_config, scene=self) for a source class: the new
\* instance is added to the scene by Source.__init__
NewSourceFromConfig(st, item_config) ==
    LET id == Min(FreeSources(st))
    IN  [st EXCEPT !.sobj[id] = SourceFromConfig(item_config),
                   !.sources = Append(st.sources, id)]

\* Polycurve.from_config up to "curves_config[0]": cls(scene=scene, tag=tag)
\* is in the scene, without n and without start()
NewUnstartedRegion(st, item_config) ==
    LET id == Min(FreeRegions(st))
    IN  [st EXCEPT !.robj[id] = RegionObj("Polycurve", None, item_config.tag, <<>>, <<>>),
                   !.regions = Append(st.regions, id)]

\* cls.from_config(item_config, scene=self) for a region class, with the
\* IndexError of curves_config[0] when the config holds no curve
RegionFromConfig(st, item_config) ==
    IF item_config.curves = <<>> THEN Raise(NewUnstartedRegion(st, item_config), "IndexError")
    ELSE Ok(NewRegionFromConfig(st, item_config))

SourceItemFromConfig(st, item_config) == Ok(NewSourceFromConfig(st, item_config))

RegionClasses == {"Polycurve"}
SourceClasses == {"SingleRay", "Beam"}

\* Scene._add_config over the items _add_iterator yields for one category
RECURSIVE AddItems(_, _, _)
AddItems(res, category, items) ==
    IF res.err # "none" \/ items = <<>> THEN res
    ELSE IF Head(items).Class \notin (IF category = "Regions" THEN RegionClasses
                                      ELSE SourceClasses)
    THEN Raise(res.st, "KeyError")
    ELSE AddItems(IF category = "Regions" THEN RegionFromConfig(res.st, Head(items))
                  ELSE SourceItemFromConfig(res.st, Head(items)),
                  category, Tail(items))

\* Scene._add_config with Scene._add_iterator, for a config that holds
\* 'Regions' or 'Sources'
AddCategory(res, config, category) ==
    IF res.err # "none" THEN res
    ELSE IF category \notin DOMAIN config THEN Raise(res.st, "KeyError")
    ELSE AddItems(res, category, config[category])

_add_config(st, config) ==
    IF "Regions" \in DOMAIN config \/ "Sources" \in DOMAIN config
    THEN AddCategory(AddCategory(Ok(st), config, "Regions"), config, "Sources")
    ELSE IF "Class" \in DOMAIN config
    THEN IF config.Class \in SourceClasses THEN Ok(NewSourceFromConfig(st, config))
         ELSE IF config.Class \in RegionClasses THEN RegionFromConfig(st, config)
         ELSE Raise(st, "KeyError")
    ELSE Raise(st, "UnboundLocalError")

\* an add that appends without looking for the instance in the list
AddUnchecked(st, kind, id, config) ==
    IF kind = "Ray" THEN Raise(st, "TypeError")
    ELSE IF kind = "Region" THEN Ok([st EXCEPT !.regions = Append(st.regions, id)])
    ELSE IF kind = "Source" THEN Ok([st EXCEPT !.sources = Append(st.sources, id)])
    ELSE IF kind = "dict" THEN _add_config(st, config)
    ELSE Raise(st, "NotImplementedError")

\* a remove without the test for a Ray: the Ray is no Region and no Source
RemoveNoRayTest(st, kind, id) ==
    IF kind = "Region"
    THEN IF InSeq(id, st.regions)
         THEN Ok([st EXCEPT !.regions = ListRemove(st.regions, id)])
         ELSE Raise(st, "ValueError")
    ELSE IF kind = "Source"
    THEN IF InSeq(id, st.sources)
         THEN Ok([st EXCEPT !.sources = ListRemove(st.sources, id)])
         ELSE Raise(st, "ValueError")
    ELSE Raise(st, "NotImplementedError")

\* Scene.add(other).  kind is the class of other as isinstance sees it:
\* "Ray", "Region", "Source", "dict" or anything else; id is the instance
\* (of a Region or Source), config the dict
add(st, kind, id, config) ==
    IF kind = "Ray" THEN Raise(st, "TypeError")
    ELSE IF kind = "Region"
    THEN IF InSeq(id, st.regions) THEN Raise(st, "ValueError")
         ELSE Ok([st EXCEPT !.regions = Append(st.regions, id)])
    ELSE IF kind = "Source"
    THEN IF InSeq(id, st.sources) THEN Raise(st, "ValueError")
         ELSE Ok([st EXCEPT !.sources = Append(st.sources, id)])
    ELSE IF kind = "dict" THEN _add_config(st, config)
    ELSE Raise(st, "NotImplementedError")

\* Scene.remove(other); list.remove raises ValueError for an absent element
remove(st, kind, id) ==
    IF kind = "Ray" THEN Raise(st, "TypeError")
    ELSE IF kind = "Region"
    THEN IF InSeq(id, st.regions)
         THEN Ok([st EXCEPT !.regions = ListRemove(st.regions, id)])
         ELSE Raise(st, "ValueError")
    ELSE IF kind = "Source"
    THEN IF InSeq(id, st.sources)
         THEN Ok([st EXCEPT !.sources = ListRemove(st.sources, id)])
         ELSE Raise(st, "ValueError")
    ELSE Raise(st, "NotImplementedError")

\* the loops of Scene.clear: reversed(list) visits index i, i-1, ... of the
\* list as it is when the index is reached, and stops at an index past its end
RECURSIVE ClearRegions(_, _)
ClearRegions(res, i) ==
    IF res.err # "none" \/ i < 1 \/ i > Len(res.st.regions) THEN res
    ELSE ClearRegions(remove(res.st, "Region", res.st.regions[i]), i - 1)

RECURSIVE ClearSources(_, _)
ClearSources(res, i) ==
    IF res.err # "none" \/ i < 1 \/ i > Len(res.st.sources) THEN res
    ELSE ClearSources(remove(res.st, "Source", res.st.sources[i]), i - 1)

\* Scene.clear
clear(st) ==
    LET r == ClearRegions(Ok(st), Len(st.regions))
    IN  IF r.err # "none" THEN r ELSE ClearSources(r, Len(r.st.sources))

\* the setter of Scene.config
set_config(st, config) ==
    LET r == clear(st)
    IN  IF r.err # "none" THEN r ELSE _add_config(r.st, config)

\* ------------------------------------------------ guis/qt/main.py, Gui

\* Gui.import_file, the file read as the dict config: what is under 'Scene'
\* is added to the scene, or the whole dict when there is no 'Scene'
import_file(st, config) ==
    IF "Scene" \in DOMAIN config THEN add(st, "dict", 0, config.Scene)
    ELSE add(st, "dict", 0, config)

\* import_file after scene.clear(), unless clear raised
AddAfter(r, config) == IF r.err # "none" THEN r ELSE import_file(r.st, config)

\* the outcome of the rollback
RolledBack(r) == IF r.err = "none" THEN Raise(r.st, "rollback") ELSE r

\* the try block of Gui.load_file
LoadTry(st, config, reset_scene) ==
    IF reset_scene THEN AddAfter(clear(st), config) ELSE import_file(st, config)

\* the except block of Gui.load_file: scene.config = config_backup; err is
\* "rollback" when the method returns with success = False, and the
\* exception when the rollback raises one
LoadExcept(r, config_backup) ==
    IF r.err = "none" THEN r
    ELSE RolledBack(set_config(r.st, config_backup))

\* Gui.load_file(filename, reset_scene).  scene.config is read before the
\* try block: a region without a config (a base Region) makes the call fail
\* there.
load_file(st, config, reset_scene) ==
    IF ~CanExport(st) THEN Raise(st, "AttributeError")
    ELSE LoadExcept(LoadTry(st, config, reset_scene), SceneConfigOf(st))

\* ------------------------------------------------- rays.py, Ray.propagate

\* cont = 20: the maximum number of ray parts
MaxCont == 20

\* margin = float_info.epsilon * 1000: a length far below the sizes of the
\* scene; the model takes 1/100
margin == Rat(1, 100)

\* the loop "for region in scene.regions: intersections.extend(...)"
RECURSIVE Intersections(_, _, _)
Intersections(ro, rgs, line) ==
    IF rgs = <<>> THEN <<>>
    ELSE RegionIntersection(ro[Head(rgs)], line, 1) \o Intersections(ro, Tail(rgs), line)

\* list.sort(key=itemgetter(1)): a stable sort on s, smaller first
RECURSIVE InsertByS(_, _)
InsertByS(sorted, x) ==
    IF sorted = <<>> THEN <<x>>
    ELSE IF RLt(x.s, Head(sorted).s) THEN <<x>> \o sorted
    ELSE <<Head(sorted)>> \o InsertByS(Tail(sorted), x)

RECURSIVE SortByS(_)
SortByS(seq) ==
    IF seq = <<>> THEN <<>>
    ELSE InsertByS(SortByS(SubSeq(seq, 1, Len(seq) - 1)), seq[Len(seq)])

\* a look at the intersection itself, without the margin
RegionAheadNoMargin(line, intersection) ==
    region_at_point(LinePoint(line, intersection.s))

\* the region just after an intersection on the line
RegionAhead(line, intersection) ==
    region_at_point(LinePoint(line, RAdd(intersection.s, margin)))

\* the loop "for intersection in intersections": the first one whose region
\* ahead has another index than current_region (found = FALSE: smin is None)
RECURSIVE FindDiopterFrom(_, _, _, _)
FindDiopter(intersections, line, current_region) ==
    IF intersections = <<>>
    THEN [found |-> FALSE, region2 |-> current_region,
          i |-> Intersection(line.p, None, line.u, line.u)]
    ELSE FindDiopterFrom(intersections, line, current_region,
                         RegionAhead(line, Head(intersections)))

\* a turn that takes the intersection at hand whatever lies after it
FindDiopterNoSkip(intersections, line, current_region, region_ahead) ==
    [found |-> TRUE, region2 |-> region_ahead, i |-> Head(intersections)]

\* one turn of that loop, region_ahead being the region after the
\* intersection at hand
FindDiopterFrom(intersections, line, current_region, region_ahead) ==
    IF robj[region_ahead].n # robj[current_region].n
    THEN [found |-> TRUE, region2 |-> region_ahead, i |-> Head(intersections)]
    ELSE FindDiopter(Tail(intersections), line, current_region)

\* the direction and the medium after the diopter: Snell's law in vector
\* form, or total internal reflection
\* u2N ** 2 of Snell's law, from the components of u1 and (n2 / n1) ** 2
\* a u2N2 that leaves (n2 / n1) ** 2 out of the tangential term
SnellU2N2Normal(u1N, u1T, r2) ==
    float_sub(float_mul(r2, RSq(u1N)), RSq(u1T))

SnellU2N2(u1N, u1T, r2) ==
    float_add(float_mul(float_sub(r2, I(1)), RSq(u1T)), float_mul(r2, RSq(u1N)))

\* (n2 / n1) ** 2
RatioSq(n2, n1) == float_mul(float_div(n2, n1), float_div(n2, n1))

\* "if u2N2 >= 0": the refraction branch is taken
Refracts(u2N2) == float_ge(u2N2, I(0))

\* a branch that takes the downstream medium on reflection too
DiopterEntersAlways(u1N, u1T, u2N2, n1, n2, eN, eT, region2, current_region) ==
    IF Refracts(u2N2)
    THEN [u_next |-> normalize(VAdd(VScale(eT, u1T),
                                    VScale(eN, RCopySign(RSqrt(u2N2), u1N)))),
          n_next |-> n2, next_region |-> region2]
    ELSE [u_next |-> normalize(VAdd(VScale(eT, u1T), VScale(eN, RNeg(u1N)))),
          n_next |-> n2, next_region |-> region2]

\* a reflection that keeps the index and takes the region behind the diopter
DiopterReflectsInto(u1N, u1T, u2N2, n1, n2, eN, eT, region2, current_region) ==
    IF Refracts(u2N2)
    THEN [u_next |-> normalize(VAdd(VScale(eT, u1T),
                                    VScale(eN, RCopySign(RSqrt(u2N2), u1N)))),
          n_next |-> n2, next_region |-> region2]
    ELSE [u_next |-> normalize(VAdd(VScale(eT, u1T), VScale(eN, RNeg(u1N)))),
          n_next |-> n1, next_region |-> region2]

\* the branch on u2N2: refraction when it is not negative, else reflection
Diopter(u1N, u1T, u2N2, n1, n2, eN, eT, region2, current_region) ==
    IF Refracts(u2N2)
    THEN [u_next |-> normalize(VAdd(VScale(eT, u1T),
                                    VScale(eN, RCopySign(RSqrt(u2N2), u1N)))),
          n_next |-> n2, next_region |-> region2]
    ELSE [u_next |-> normalize(VAdd(VScale(eT, u1T), VScale(eN, RNeg(u1N)))),
          n_next |-> n1, next_region |-> current_region]

DiopterOf(u1N, u1T, n1, n2, eN, eT, region2, current_region) ==
    Diopter(u1N, u1T, SnellU2N2(u1N, u1T, RatioSq(n2, n1)), n1, n2, eN, eT,
            region2, current_region)

NextPart(u1, n1, n2, eN, eT, region2, current_region) ==
    DiopterOf(Dot(u1, eN), Dot(u1, eT), n1, n2, eN, eT, region2, current_region)

\* Ray.propagate without the reset "self.parts = [part0]": the parts of an
\* earlier call are kept
PropagateInitKeep(parts) ==
    [parts |-> [parts EXCEPT ![1].n = robj[region_at(parts[1].line)].n],
     region |-> region_at(parts[1].line), cont |-> MaxCont]

\* the first statements of Ray.propagate: the starting region, the first
\* part with its index, cont
PropagateInit(parts) ==
    LET current_region == region_at(parts[1].line)
    IN  [parts |-> <<[parts[1] EXCEPT !.n = robj[current_region].n]>>,
         region |-> current_region, cont |-> MaxCont]

\* one turn of the loop "while cont" of Ray.propagate
\* a step that appends the new part whatever cont is
ContinuePastCap(parts1, current_region, cont1, np) ==
    [parts |-> add_part(parts1, np.u_next, Inf, np.n_next),
     region |-> np.next_region, cont |-> cont1]

\* "if cont > 0": the new part is appended and the region updated
Continue(parts1, current_region, cont1, np) ==
    IF cont1 > 0
    THEN [parts |-> add_part(parts1, np.u_next, Inf, np.n_next),
          region |-> np.next_region, cont |-> cont1]
    ELSE [parts |-> parts1, region |-> current_region, cont |-> cont1]

\* a step that forgets "cont -= 1"
AtDiopterNoCount(parts, current_region, cont, d) ==
    IF d.found
    THEN Continue(change_s(parts, Len(parts), d.i.s), current_region, cont,
                  NextPart(parts[Len(parts)].line.u, parts[Len(parts)].n,
                           robj[d.region2].n, d.i.eN, d.i.eT, d.region2, current_region))
    ELSE [parts |-> parts, region |-> current_region, cont |-> 0]

\* "if smin is None: ... else: ...", d being what the search found
AtDiopter(parts, current_region, cont, d) ==
    IF d.found
    THEN Continue(change_s(parts, Len(parts), d.i.s), current_region, cont - 1,
                  NextPart(parts[Len(parts)].line.u, parts[Len(parts)].n,
                           robj[d.region2].n, d.i.eN, d.i.eT, d.region2, current_region))
    ELSE [parts |-> parts, region |-> current_region, cont |-> 0]

\* the intersections ahead on the line, nearest first
SortedIntersections(line) == SortByS(Intersections(robj, regions, line))

PropagateLoop(parts, current_region, cont) ==
    AtDiopter(parts, current_region, cont,
              FindDiopter(SortedIntersections(parts[Len(parts)].line),
                          parts[Len(parts)].line, current_region))

\* "n2 / n1" of that turn: what the division raises, if it does
DivisionError(n2, n1) ==
    IF n2 = None \/ n1 = None THEN "TypeError"
    ELSE IF n1 = I(0) THEN "ZeroDivisionError"
    ELSE "none"

\* the exception a turn of the loop raises, d being what the search found:
\* the division is reached when a diopter was found and cont stays above 0
RaiseAt(parts, cont, d) ==
    IF d.found /\ cont - 1 > 0
    THEN DivisionError(robj[d.region2].n, parts[Len(parts)].n)
    ELSE "none"

PropagateRaises(parts, current_region, cont) ==
    RaiseAt(parts, cont,
            FindDiopter(SortedIntersections(parts[Len(parts)].line),
                        parts[Len(parts)].line, current_region))

\* the parts when the division raises: change_s(-1, smin) was done
CutAt(parts, d) == change_s(parts, Len(parts), d.i.s)
PartsAtRaise(parts, current_region) ==
    CutAt(parts, FindDiopter(SortedIntersections(parts[Len(parts)].line),
                             parts[Len(parts)].line, current_region))

\* Ray.propagate as one call, on the parts of one ray alone: the first
\* statements, then the loop until cont is 0
RECURSIVE PropagateFrom(_, _, _)
PropagateNext(r) ==
    IF r.cont > 0 THEN PropagateFrom(r.parts, r.region, r.cont) ELSE r.parts
PropagateFrom(parts, current_region, cont) ==
    PropagateNext(PropagateLoop(parts, current_region, cont))
PropagateStart(r) == PropagateFrom(r.parts, r.region, r.cont)
Ray_propagate(parts) == PropagateStart(PropagateInit(parts))

\* ------------------------------------------------------------ the inputs

\* starting lines of the single rays: R1 runs into W and V from the left,
\* R2 starts where G lies
R1 == Line(Point(I(1), I(2)), Vector(Rat(3, 5), Rat(4, 5)))
R2 == Line(Point(I(-13), I(2)), Vector(Rat(3, 5), Rat(4, 5)))

\* R3 runs through W and through the centre of the arc of D, along x;
\* R4 runs up the vertical side of T, through two of its vertices
R3 == Line(Point(I(-1), I(5)), Vector(I(1), I(0)))
R4 == Line(Point(I(20), I(-1)), Vector(I(0), I(1)))

SingleRayInputs ==
    {[line0 |-> R1, s0 |-> I(100), tag |-> "a"],
     [line0 |-> R2, s0 |-> I(100), tag |-> NoTag]}

\* the N_inter the model gives a Beam
MaxNInter == 1

\* a parallel beam that runs into W and V from the left
BeamInputs ==
    {[line_start |-> Line(Point(I(1), I(2)), Vector(I(1), I(0))), s_start |-> I(100),
      line_end |-> Line(Point(I(1), I(6)), Vector(I(1), I(0))), s_end |-> I(50),
      N_inter |-> k, tag |-> "b"] : k \in {MaxNInter}}

NoConfig == [None |-> None]

\* --------------------------------------------------------------- actions

Call(op, err) == [op |-> op, err |-> err]

SetScene(st) ==
    /\ robj' = st.robj
    /\ regions' = st.regions
    /\ sobj' = st.sobj
    /\ sources' = st.sources

\* Polycurve(n=n, scene=scene, tag=tag), then start, add_line ..., close
NewPolycurve(t) ==
    /\ pc = "idle"
    /\ FreeRegions(St) # {}
    /\ LET id == Min(FreeRegions(St))
       IN  /\ robj' = [robj EXCEPT ![id] = Template(t)]
           /\ regions' = add(St, "Region", id, NoConfig).st.regions
           /\ call' = Call("new", "none")
    /\ UNCHANGED <<sobj, sources, pc, todo, cur, probe, gui>>

\* SingleRay(line0=line0, s0=s0, scene=scene, tag=tag)
NewSingleRay(in) ==
    /\ pc = "idle"
    /\ FreeSources(St) # {}
    /\ LET id == Min(FreeSources(St))
       IN  /\ sobj' = [sobj EXCEPT ![id] = SingleRay(in.line0, in.s0, in.tag)]
           /\ sources' = add(St, "Source", id, NoConfig).st.sources
           /\ call' = Call("new", "none")
    /\ UNCHANGED <<robj, regions, pc, todo, cur, probe, gui>>

\* Beam(line_start, s_start, line_end, s_end, N_inter, scene=scene, tag=tag)
NewBeam(in) ==
    /\ pc = "idle"
    /\ FreeSources(St) # {}
    /\ LET id == Min(FreeSources(St))
       IN  /\ sobj' = [sobj EXCEPT ![id] = Beam(in.line_start, in.s_start, in.line_end,
                                                in.s_end, in.N_inter, in.tag)]
           /\ sources' = add(St, "Source", id, NoConfig).st.sources
           /\ call' = Call("new", "none")
    /\ UNCHANGED <<robj, regions, pc, todo, cur, probe, gui>>

\* the scene and the outcome that a call leaves: r is what the call returns
Returns(op, r) ==
    /\ SetScene(r.st)
    /\ call' = Call(op, r.err)

\* scene.add(other), other an instance or anything that is not a dict
SceneAdd(kind, id) ==
    /\ pc = "idle"
    /\ Returns("add", add(St, kind, id, NoConfig))
    /\ UNCHANGED <<pc, todo, cur, probe, gui>>

\* scene.remove(other)
SceneRemove(kind, id) ==
    /\ pc = "idle"
    /\ Returns("remove", remove(St, kind, id))
    /\ UNCHANGED <<pc, todo, cur, probe, gui>>

\* scene.clear()
SceneClear ==
    /\ pc = "idle"
    /\ Returns("clear", clear(St))
    /\ UNCHANGED <<pc, todo, cur, probe, gui>>

\* the instances a config creates fit the model's bounds
Fits(st, config) ==
    /\ "Regions" \in DOMAIN config => Len(config.Regions) <= Cardinality(FreeRegions(st))
    /\ "Sources" \in DOMAIN config => Len(config.Sources) <= Cardinality(FreeSources(st))

\* scene.add(scene.config)
SceneAddConfig ==
    /\ pc = "idle"
    /\ CanExport(St)
    /\ Fits(St, SceneConfigOf(St))
    /\ Returns("add", add(St, "dict", 0, SceneConfigOf(St)))
    /\ UNCHANGED <<pc, todo, cur, probe, gui>>

\* scene.config = scene.config
SceneSetConfig ==
    /\ pc = "idle"
    /\ CanExport(St)
    /\ Fits(St, SceneConfigOf(St))
    /\ Returns("set_config", set_config(St, SceneConfigOf(St)))
    /\ UNCHANGED <<pc, todo, cur, probe, gui>>

\* the files given to Gui.load_file, as yaml.safe_load reads them: one
\* without the key 'Scene' or any known key (the "Scen" of
\* tests/scene_faulty.geoptics), one whose scene has a region and no
\* 'Sources', and one that holds an empty scene
FaultyFile == [Scen |-> [Regions |-> <<>>, Sources |-> <<>>]]
NoSourcesFile == [Scene |-> [Regions |-> <<PolycurveConfig(Template("W"))>>]]
EmptyFile == [Scene |-> [Regions |-> <<>>, Sources |-> <<>>]]
Files == {FaultyFile, NoSourcesFile, EmptyFile}

\* the number of items of a category in a file
FileItems(config, category) ==
    IF "Scene" \in DOMAIN config /\ category \in DOMAIN config.Scene
    THEN Len(config.Scene[category]) ELSE 0

\* the instances a load and its rollback create fit the model's bounds
FitsLoad(st, config) ==
    /\ Len(st.regions) + FileItems(config, "Regions") <= Cardinality(FreeRegions(st))
    /\ Len(st.sources) + FileItems(config, "Sources") <= Cardinality(FreeSources(st))

\* gui.load_file(filename, reset_scene)
SceneLoadFile(config, reset_scene) ==
    /\ pc = "idle"
    /\ FitsLoad(St, config)
    /\ Returns("load_file", load_file(St, config, reset_scene))
    /\ UNCHANGED <<pc, todo, cur, probe, gui>>

\* [ray for source in self.sources for ray in source.rays], as <<source, index>>
RECURSIVE RaysOf(_, _)
RaysOf(so, srcs) ==
    IF srcs = <<>> THEN <<>>
    ELSE [i \in 1..Len(so[Head(srcs)].rays) |-> <<Head(srcs), i>>] \o RaysOf(so, Tail(srcs))

NoCur == [src |-> 0, ray |-> 0, region |-> 0, cont |-> 0]

\* the parts of the ray Ray.propagate is working on
CurParts == sobj[cur.src].rays[cur.ray].parts

\* scene.propagate(): all the rays of all the sources
ScenePropagate ==
    /\ pc = "idle"
    /\ todo' = RaysOf(sobj, sources)
    /\ pc' = IF sources = <<>> THEN "idle" ELSE "next"
    /\ call' = Call("propagate", "none")
    /\ UNCHANGED <<robj, regions, sobj, sources, cur, probe, gui>>

\* scene.propagate([ray]) for one ray of a source
ScenePropagateRay(src, i) ==
    /\ pc = "idle"
    /\ sobj[src].born
    /\ i \in 1..Len(sobj[src].rays)
    /\ todo' = <<<<src, i>>>>
    /\ pc' = "next"
    /\ call' = Call("propagate", "none")
    /\ UNCHANGED <<robj, regions, sobj, sources, cur, probe, gui>>

\* ray.propagate(self) for the next ray of the list, up to the loop
RayPropagateBegin ==
    /\ pc = "next"
    /\ LET src == Head(todo)[1]
           i == Head(todo)[2]
           r == PropagateInit(sobj[src].rays[i].parts)
       IN  /\ sobj' = [sobj EXCEPT ![src].rays[i].parts = r.parts]
           /\ cur' = [src |-> src, ray |-> i, region |-> r.region, cont |-> r.cont]
    /\ todo' = Tail(todo)
    /\ pc' = "loop"
    /\ UNCHANGED <<robj, regions, sources, call, probe, gui>>

\* one turn of the loop of Ray.propagate; when cont is 0 the method returns
RayPropagateLoop ==
    /\ pc = "loop"
    /\ IF PropagateRaises(CurParts, cur.region, cur.cont) # "none"
       THEN /\ sobj' = [sobj EXCEPT ![cur.src].rays[cur.ray].parts =
                                        PartsAtRaise(CurParts, cur.region)]
            /\ cur' = NoCur
            /\ pc' = "idle"
            /\ todo' = <<>>
            /\ call' = Call("propagate", PropagateRaises(CurParts, cur.region, cur.cont))
       ELSE /\ LET r == PropagateLoop(CurParts, cur.region, cur.cont)
               IN  /\ sobj' = [sobj EXCEPT ![cur.src].rays[cur.ray].parts = r.parts]
                   /\ cur' = IF r.cont > 0
                             THEN [cur EXCEPT !.region = r.region, !.cont = r.cont]
                             ELSE NoCur
                   /\ pc' = IF r.cont > 0 THEN "loop"
                            ELSE IF todo = <<>> THEN "idle" ELSE "next"
            /\ UNCHANGED <<todo, call>>
    /\ UNCHANGED <<robj, regions, sources, probe, gui>>

\* ------------------------------------------------------ the specification

NoProbe == [op |-> "none", region |-> 0, line |-> NoLine, inside |-> FALSE, at |-> 0]

\* Scene(): the background of index 1.0, no region, no source
Init ==
    /\ robj = [i \in {Background} \cup RegionIds |->
                 IF i = Background THEN RegionObj("Region", I(1), NoTag, <<>>, <<>>)
                 ELSE NoRegion]
    /\ regions = <<>>
    /\ sobj = [i \in SourceIds |-> NoSource]
    /\ sources = <<>>
    /\ pc = "idle"
    /\ todo = <<>>
    /\ cur = NoCur
    /\ call = Call("init", "none")
    /\ probe = NoProbe
    /\ gui = NoGui

BornRegions == {i \in RegionIds : robj[i].born}
BornSources == {i \in SourceIds : sobj[i].born}

\* the operations that build and change the scene, with regions drawn
\* after the templates ts
NextSceneOf(ts) ==
    \/ \E t \in ts : NewPolycurve(t)
    \/ \E in \in SingleRayInputs : NewSingleRay(in)
    \/ \E in \in BeamInputs : NewBeam(in)
    \/ \E id \in BornRegions \cup {Background} : SceneAdd("Region", id)
    \/ \E id \in BornSources : SceneAdd("Source", id)
    \/ \E id \in BornSources \cup {0} : SceneAdd("Ray", id)
    \/ SceneAdd("int", 0)
    \/ SceneAddConfig
    \/ \E id \in BornRegions \cup {Background} : SceneRemove("Region", id)
    \/ \E id \in BornSources : SceneRemove("Source", id)
    \/ \E id \in BornSources \cup {0} : SceneRemove("Ray", id)
    \/ SceneRemove("int", 0)
    \/ SceneClear
    \/ SceneSetConfig
    \/ \E config \in Files : \E reset_scene \in BOOLEAN : SceneLoadFile(config, reset_scene)

NextScene == NextSceneOf(Templates)

\* the propagation of rays
NextPropagate ==
    \/ ScenePropagate
    \/ \E src \in BornSources : \E i \in 1..Len(sobj[src].rays) : ScenePropagateRay(src, i)
    \/ RayPropagateBegin
    \/ RayPropagateLoop

Next == NextScene \/ NextPropagate

\* the whole program
Spec == Init /\ [][Next]_vars

\* The scene operations alone, from the empty scene.  The geometry plays no
\* part in them: the regions are all drawn after one template and the single
\* rays after one input.
SpecScene == Init /\ [][NextSceneOf({"W"})]_vars

\* Propagation.  The scene is one that the constructors build: regions drawn
\* after distinct templates, in any order, and one source; then all the rays
\* are propagated, and regions taken out of the scene and put back, in any
\* order.
DistinctLists(shapes) ==
    {ts \in UNION {[1..k -> shapes] : k \in 0..MaxRegions} :
        \A i, j \in DOMAIN ts : i # j => ts[i] # ts[j]}

TemplateLists ==
    {ts \in UNION {[1..k -> Templates] : k \in 0..MaxRegions} :
        \A i, j \in DOMAIN ts : i # j => ts[i] # ts[j]}

InitSources ==
    {SingleRay(in.line0, in.s0, in.tag) : in \in SingleRayInputs}
    \cup {Beam(in.line_start, in.s_start, in.line_end, in.s_end, in.N_inter, in.tag) :
            in \in BeamInputs}

InitProp ==
    /\ \E ts \in TemplateLists :
        /\ robj = [i \in {Background} \cup RegionIds |->
                     IF i = Background THEN RegionObj("Region", I(1), NoTag, <<>>, <<>>)
                     ELSE IF i <= Len(ts) THEN Template(ts[i]) ELSE NoRegion]
        /\ regions = [i \in 1..Len(ts) |-> i]
    /\ \E src \in InitSources :
        /\ sobj = [i \in SourceIds |-> IF i = 1 THEN src ELSE NoSource]
        /\ sources = <<1>>
    /\ pc = "idle"
    /\ todo = <<>>
    /\ cur = NoCur
    /\ call = Call("new", "none")
    /\ probe = NoProbe
    /\ gui = NoGui

NextProp ==
    \/ ScenePropagate
    \/ RayPropagateBegin
    \/ RayPropagateLoop
    \/ \E id \in BornRegions : SceneAdd("Region", id)
    \/ \E id \in BornRegions : SceneRemove("Region", id)

SpecProp == InitProp /\ [][NextProp]_vars

\* Propagation of all the rays or of one ray, in scenes of two sources
FrameSingleRay == SingleRay(R1, I(DefaultS0), "a")
FrameBeam ==
    Beam(Line(Point(I(1), I(2)), Vector(I(1), I(0))), I(100),
         Line(Point(I(1), I(6)), Vector(I(1), I(0))), I(50), 0, "b")

InitFrame ==
    /\ \E ts \in DistinctLists({"W"}) :
        /\ robj = [i \in {Background} \cup RegionIds |->
                     IF i = Background THEN RegionObj("Region", I(1), NoTag, <<>>, <<>>)
                     ELSE IF i <= Len(ts) THEN Template(ts[i]) ELSE NoRegion]
        /\ regions = [i \in 1..Len(ts) |-> i]
    /\ sobj = [i \in SourceIds |->
                 IF i = 1 THEN FrameSingleRay ELSE IF i = 2 THEN FrameBeam ELSE NoSource]
    /\ sources \in {<<1, 2>>, <<2, 1>>}
    /\ pc = "idle"
    /\ todo = <<>>
    /\ cur = NoCur
    /\ call = Call("new", "none")
    /\ probe = NoProbe
    /\ gui = NoGui

NextFrame ==
    \/ NextProp
    \/ \E src \in BornSources : \E i \in 1..Len(sobj[src].rays) : ScenePropagateRay(src, i)

SpecFrame == InitFrame /\ [][NextFrame]_vars

\* Beams: built by the constructor, rebuilt from a config, and set again
\* and again, with and without N_inter, a starting line and a length
BeamSetArgs ==
    [line_start : {NoLine, Line(Point(I(0), I(0)), Vector(I(1), I(0)))},
     line_end : {NoLine},
     s_start : {None, I(60)},
     s_end : {None},
     N_inter : {-1} \cup (0..(MaxNInter + 1))]

\* beam.set(line_start=..., s_start=..., N_inter=...)
BeamSetCall(id, args) ==
    /\ pc = "idle"
    /\ sobj[id].born /\ sobj[id].Class = "Beam"
    /\ sobj' = [sobj EXCEPT ![id] = BeamSet(@, args.line_start, args.line_end,
                                              args.s_start, args.s_end, args.N_inter)]
    /\ call' = Call("set", "none")
    /\ UNCHANGED <<robj, regions, sources, pc, todo, cur, probe, gui>>

NextBeam ==
    \/ \E in \in BeamInputs : NewBeam(in)
    \/ \E id \in BornSources : \E args \in BeamSetArgs : BeamSetCall(id, args)
    \/ SceneAddConfig
    \/ SceneSetConfig

SpecBeam == Init /\ [][NextBeam]_vars

\* Propagation in the scenes the constructors give with their default
\* arguments: the empty scene, sources without a region, and regions drawn
\* on Polycurve(scene=scene)
RaiseSources == {SingleRay(R3, I(DefaultS0), NoTag), FrameBeam}

InitRaise ==
    /\ \E ts \in DistinctLists({"W", "N"}) :
        /\ robj = [i \in {Background} \cup RegionIds |->
                     IF i = Background THEN RegionObj("Region", I(1), NoTag, <<>>, <<>>)
                     ELSE IF i <= Len(ts) THEN Template(ts[i]) ELSE NoRegion]
        /\ regions = [i \in 1..Len(ts) |-> i]
    /\ \E src \in RaiseSources :
        /\ sobj = [i \in SourceIds |-> IF i = 1 THEN src ELSE NoSource]
        /\ sources \in {<<>>, <<1>>}
    /\ pc = "idle"
    /\ todo = <<>>
    /\ cur = NoCur
    /\ call = Call("new", "none")
    /\ probe = NoProbe
    /\ gui = NoGui

SpecRaise == InitRaise /\ [][NextProp]_vars

\* scene.add(scene.config) in the scenes the constructors and the builder
\* operations give: regions that are drawn (W) or only started (E), single
\* rays and beams, added to the scene and removed from it
NextMerge ==
    \/ \E t \in {"W", "E"} : NewPolycurve(t)
    \/ \E in \in SingleRayInputs : NewSingleRay(in)
    \/ \E in \in BeamInputs : NewBeam(in)
    \/ \E id \in BornRegions : SceneAdd("Region", id)
    \/ \E id \in BornSources : SceneAdd("Source", id)
    \/ \E id \in BornRegions : SceneRemove("Region", id)
    \/ \E id \in BornSources : SceneRemove("Source", id)
    \/ SceneAddConfig

SpecMerge == Init /\ [][NextMerge]_vars

\* ------------------------------------------------------------ arcs alone

\* arcs of the circle of centre (6, 5) and radius 5: the right half drawn
\* clockwise (the arc of D) and counter-clockwise, the left half both ways,
\* and the short and the long arc between (9, 9) and (3, 9) both ways
ArcInputs ==
    {Arc(Point(I(6), I(10)), Point(I(6), I(0)), Vector(I(1), I(0))),
     Arc(Point(I(6), I(0)), Point(I(6), I(10)), Vector(I(1), I(0))),
     Arc(Point(I(6), I(10)), Point(I(6), I(0)), Vector(I(-1), I(0))),
     Arc(Point(I(6), I(0)), Point(I(6), I(10)), Vector(I(-1), I(0))),
     Arc(Point(I(9), I(9)), Point(I(3), I(9)), Vector(I(-4), I(3))),
     Arc(Point(I(3), I(9)), Point(I(9), I(9)), Vector(I(4), I(3))),
     Arc(Point(I(9), I(9)), Point(I(3), I(9)), Vector(I(4), I(-3))),
     Arc(Point(I(3), I(9)), Point(I(9), I(9)), Vector(I(-4), I(-3)))}

\* the directions from the centre to the points of the circle that have
\* whole coordinates
CircleSteps ==
    {Vector(I(x), I(y)) : x, y \in {-5, -4, -3, 0, 3, 4, 5}} \ {v \in
        {Vector(I(x), I(y)) : x, y \in {-5, -4, -3, 0, 3, 4, 5}} :
            RAdd(RSq(v.x), RSq(v.y)) # I(25)}

ArcCentre == Point(I(6), I(5))
CirclePoints == {Point(RAdd(ArcCentre.x, d.x), RAdd(ArcCentre.y, d.y)) : d \in CircleSteps}

\* lines from the centre to each of these points, which cross the circle
\* once ahead, at s = 5
CentreLines == {Line(ArcCentre, VDiv(d, I(5))) : d \in CircleSteps}

\* lines that start on the circle and run through the centre
OnArcLines ==
    {Line(Point(RAdd(ArcCentre.x, d.x), RAdd(ArcCentre.y, d.y)), VDiv(d, I(-5))) :
        d \in CircleSteps}

\* M in arc.  A query changes nothing: a behaviour makes one query and
\* keeps its answer.
ArcContainsQuery(arc, M) ==
    /\ pc = "idle"
    /\ probe = NoProbe
    /\ probe' = [op |-> "arc_contains", arc |-> arc, M |-> M, line |-> NoLine,
                 answer |-> ArcContains(arc, M), hits |-> <<>>]
    /\ UNCHANGED <<robj, regions, sobj, sources, pc, todo, cur, call, gui>>

\* arc.intersection(line, sign_of_s=1)
ArcIntersectionQuery(arc, line) ==
    /\ pc = "idle"
    /\ probe = NoProbe
    /\ probe' = [op |-> "arc_intersection", arc |-> arc, M |-> line.p, line |-> line,
                 answer |-> "None", hits |-> ArcIntersection(arc, line, 1)]
    /\ UNCHANGED <<robj, regions, sobj, sources, pc, todo, cur, call, gui>>

\* the other kinds of boundary, through the centre of the circle: the line
\* and the segment along the chord x = 6, and the region D, whose right
\* side is the first arc
ChordLine == Line(Point(I(6), I(0)), Vector(I(0), I(1)))
ChordSegment == Segment(Point(I(6), I(0)), Point(I(6), I(10)))

\* boundary.intersection(line, sign_of_s=1) for a Line, a Segment or a
\* Polycurve, hits being the list it returns
IntersectionQuery(kind, line, hits) ==
    /\ pc = "idle"
    /\ probe = NoProbe
    /\ probe' = [op |-> "intersection", kind |-> kind, line |-> line, hits |-> hits]
    /\ UNCHANGED <<robj, regions, sobj, sources, pc, todo, cur, call, gui>>

NextArc ==
    \/ \E arc \in ArcInputs : \E M \in CirclePoints : ArcContainsQuery(arc, M)
    \/ \E arc \in ArcInputs : \E line \in CentreLines \cup OnArcLines :
          ArcIntersectionQuery(arc, line)
    \/ \E line \in CentreLines \cup OnArcLines :
          IntersectionQuery("Line", line, LineIntersection(ChordLine, line, 1))
    \/ \E line \in CentreLines \cup OnArcLines :
          IntersectionQuery("Segment", line, SegmentIntersection(ChordSegment, line, 1))
    \/ \E line \in CentreLines \cup OnArcLines :
          IntersectionQuery("Polycurve", line, RegionIntersection(Template("D"), line, 1))

SpecArc == Init /\ [][NextArc]_vars

\* ---------------------------------------------------------------- translate

\* the displacements: one step along x, and a step along y that takes the
\* upper side of D to 20.5, which a mantissa of 5 bits does not hold
Displacements ==
    {Vector(I(1), I(0)), Vector(I(-1), I(0)),
     Vector(I(0), Rat(21, 2)), Vector(I(0), Rat(-21, 2))}

\* the elements stay near the origin: the first point stays within
\* MaxCoord of it along x and within 4 * MaxCoord along y
MaxCoord == 3
Near(p) == ~RGt(RAbs(p.x), I(MaxCoord)) /\ ~RGt(RAbs(p.y), I(4 * MaxCoord))

\* the first point of a region, of a source
RegionOrigin(r) == IF r.curves = <<>> THEN r.M[1] ELSE r.curves[1].M1
SourceOrigin(src) == src.rays[1].parts[1].line.p

\* region.translate(dx=dx, dy=dy)
RegionTranslate(id, dx, dy) ==
    /\ pc = "idle"
    /\ Near(PTranslate(RegionOrigin(robj[id]), dx, dy))
    /\ robj' = [robj EXCEPT ![id] = translate(robj[id], dx, dy)]
    /\ call' = Call("translate", "none")
    /\ UNCHANGED <<regions, sobj, sources, pc, todo, cur, probe, gui>>

\* source.translate(dx=dx, dy=dy)
SourceMove(id, dx, dy) ==
    /\ pc = "idle"
    /\ Near(PTranslate(SourceOrigin(sobj[id]), dx, dy))
    /\ sobj' = [sobj EXCEPT ![id] = SourceTranslate(sobj[id], dx, dy)]
    /\ call' = Call("translate", "none")
    /\ UNCHANGED <<robj, regions, sources, pc, todo, cur, probe, gui>>

\* the regions that are moved
MoveShapes == {"D", "W", "E"}

InitMove ==
    /\ \E t \in MoveShapes :
        /\ robj = [i \in {Background} \cup RegionIds |->
                     IF i = Background THEN RegionObj("Region", I(1), NoTag, <<>>, <<>>)
                     ELSE IF i = 1 THEN Template(t) ELSE NoRegion]
        /\ regions = <<1>>
    /\ \E src \in InitSources :
        /\ sobj = [i \in SourceIds |-> IF i = 1 THEN src ELSE NoSource]
        /\ sources = <<1>>
    /\ pc = "idle"
    /\ todo = <<>>
    /\ cur = NoCur
    /\ call = Call("new", "none")
    /\ probe = NoProbe
    /\ gui = NoGui

NextMove ==
    \/ \E id \in BornRegions : \E d \in Displacements : RegionTranslate(id, d.x, d.y)
    \/ \E id \in BornSources : \E d \in Displacements : SourceMove(id, d.x, d.y)

\* Translations of the regions and sources of a scene.
SpecMove == InitMove /\ [][NextMove]_vars

\* Propagation along the boundaries: the triangle T, the box W and the
\* half disc D, with rays that cross them and a ray that runs along a side
\* of T.
\* the scenes: the regions drawn and the starting line of the single ray
EdgeScenes ==
    {[shapes |-> ts, line0 |-> R1] : ts \in DistinctLists({"T", "W"})}
    \cup {[shapes |-> ts, line0 |-> R3] : ts \in DistinctLists({"W", "D"})}
    \cup {[shapes |-> ts, line0 |-> R4] : ts \in DistinctLists({"T"})}

InitEdge ==
    /\ \E sc \in EdgeScenes :
        /\ robj = [i \in {Background} \cup RegionIds |->
                     IF i = Background THEN RegionObj("Region", I(1), NoTag, <<>>, <<>>)
                     ELSE IF i <= Len(sc.shapes) THEN Template(sc.shapes[i]) ELSE NoRegion]
        /\ regions = [i \in 1..Len(sc.shapes) |-> i]
        /\ sobj = [i \in SourceIds |->
                     IF i = 1 THEN SingleRay(sc.line0, I(DefaultS0), NoTag) ELSE NoSource]
        /\ sources = <<1>>
    /\ pc = "idle"
    /\ todo = <<>>
    /\ cur = NoCur
    /\ call = Call("new", "none")
    /\ probe = NoProbe
    /\ gui = NoGui

SpecEdge == InitEdge /\ [][NextProp]_vars

\* ------------------------------------------------- drawing a Polycurve

\* the points given to start, add_line and add_arc
DrawPoints ==
    {Point(I(0), I(0)), Point(I(0), I(10)), Point(I(6), I(10)), Point(I(6), I(0))}

\* the arcs given to add_arc, as <<last point, M_next, tangent>>: half circles
\* of radius 5 around (6, 5), whose centre and radius are exact
DrawArcs ==
    {<<Point(I(6), I(10)), Point(I(6), I(0)), Vector(I(1), I(0))>>,
     <<Point(I(6), I(0)), Point(I(6), I(10)), Vector(I(1), I(0))>>}

\* the displacements given to translate while a region is drawn
DrawDisplacements == {Vector(I(1), I(0)), Vector(I(0), I(-1))}

\* the number of curves a drawn region holds at most
MaxCurves == 3

\* region.start(M_start)
PolyStart(id, M_start) ==
    /\ pc = "idle"
    /\ robj' = [robj EXCEPT ![id] = start(robj[id], M_start)]
    /\ call' = Call("start", "none")
    /\ UNCHANGED <<regions, sobj, sources, pc, todo, cur, probe, gui>>

\* region.add_line(M_next), on a region that start() has prepared
PolyAddLine(id, M_next) ==
    /\ pc = "idle"
    /\ robj[id].M # <<>>
    /\ Len(robj[id].curves) < MaxCurves
    /\ robj' = [robj EXCEPT ![id] = add_line(robj[id], M_next)]
    /\ call' = Call("add_line", "none")
    /\ UNCHANGED <<regions, sobj, sources, pc, todo, cur, probe, gui>>

\* region.add_arc(M_next, tangent), on a region that start() has prepared
PolyAddArc(id, M_next, tangent) ==
    /\ pc = "idle"
    /\ robj[id].M # <<>>
    /\ Len(robj[id].curves) < MaxCurves
    /\ <<robj[id].M[Len(robj[id].M)], M_next, tangent>> \in DrawArcs
    /\ robj' = [robj EXCEPT ![id] = add_arc(robj[id], M_next, tangent)]
    /\ call' = Call("add_arc", "none")
    /\ UNCHANGED <<regions, sobj, sources, pc, todo, cur, probe, gui>>

\* region.close(), on a region that start() has prepared
PolyClose(id) ==
    /\ pc = "idle"
    /\ robj[id].M # <<>>
    /\ Len(robj[id].curves) < MaxCurves
    /\ robj' = [robj EXCEPT ![id] = close(robj[id])]
    /\ call' = Call("close", "none")
    /\ UNCHANGED <<regions, sobj, sources, pc, todo, cur, probe, gui>>

\* the first curve stays within MaxDrift of the point it was drawn from
MaxDrift == 1
Drift(r, dx, dy) ==
    Vector_M1M2(r.M[1], PTranslate(r.curves[1].M1, dx, dy))
DriftFits(r, dx, dy) ==
    IF r.curves = <<>> THEN TRUE
    ELSE /\ ~RGt(RAbs(Drift(r, dx, dy).x), I(MaxDrift))
         /\ ~RGt(RAbs(Drift(r, dx, dy).y), I(MaxDrift))

\* region.translate(dx=dx, dy=dy), on a region that start() has prepared
PolyTranslate(id, dx, dy) ==
    /\ pc = "idle"
    /\ robj[id].M # <<>>
    /\ DriftFits(robj[id], dx, dy)
    /\ robj' = [robj EXCEPT ![id] = translate(robj[id], dx, dy)]
    /\ call' = Call("translate", "none")
    /\ UNCHANGED <<regions, sobj, sources, pc, todo, cur, probe, gui>>

\* Polycurve(n=1.5, scene=scene): the region before start()
InitDraw ==
    /\ robj = [i \in {Background} \cup RegionIds |->
                 IF i = Background THEN RegionObj("Region", I(1), NoTag, <<>>, <<>>)
                 ELSE IF i = 1 THEN RegionObj("Polycurve", Rat(3, 2), NoTag, <<>>, <<>>)
                 ELSE NoRegion]
    /\ regions = <<1>>
    /\ sobj = [i \in SourceIds |-> NoSource]
    /\ sources = <<>>
    /\ pc = "idle"
    /\ todo = <<>>
    /\ cur = NoCur
    /\ call = Call("new", "none")
    /\ probe = NoProbe
    /\ gui = NoGui

NextDraw ==
    \/ \E M_start \in DrawPoints : PolyStart(1, M_start)
    \/ \E M_next \in DrawPoints : PolyAddLine(1, M_next)
    \/ \E a \in DrawArcs : PolyAddArc(1, a[2], a[3])
    \/ PolyClose(1)
    \/ \E d \in DrawDisplacements : PolyTranslate(1, d.x, d.y)

\* One Polycurve drawn step by step and moved in between.
SpecDraw == InitDraw /\ [][NextDraw]_vars

\* ------------------------------------------------- guis/qt/signal.py, Signal

\* the slots: bound methods f and g of an object a, f of an object b
Slots == {"a.f", "a.g", "b.f"}
EmitArgs == {"x", "y"}

\* the first index of the list whose slot belongs to a deleted object, or
\* the length of the list plus one
RECURSIVE FirstDeleted(_, _, _)
FirstDeleted(subscribers, deleted, i) ==
    IF i > Len(subscribers) \/ subscribers[i] \in deleted THEN i
    ELSE FirstDeleted(subscribers, deleted, i + 1)

\* Signal.emit(arg): the slots called, in the order of the dict's keys, up
\* to the first weak reference that is dead
Emitted(g, arg) ==
    [i \in 1..(FirstDeleted(g.subscribers, g.deleted, 1) - 1) |-> <<g.subscribers[i], arg>>]

\* Signal.emit(arg)
SignalEmit(arg) ==
    /\ pc = "idle"
    /\ gui' = [gui EXCEPT !.called = Emitted(gui, arg), !.last = arg]
    /\ call' = Call("emit",
                    IF FirstDeleted(gui.subscribers, gui.deleted, 1) <= Len(gui.subscribers)
                    THEN "ReferenceError" ELSE "none")
    /\ UNCHANGED <<robj, regions, sobj, sources, pc, todo, cur, probe>>

\* Signal.connect(func), func a bound method of a living object: the dict
\* gets the key WeakMethod(func), which is equal to the key of an earlier
\* connect of the same method
SignalConnect(func) ==
    /\ pc = "idle"
    /\ func \notin gui.deleted
    /\ gui' = [gui EXCEPT !.subscribers = IF InSeq(func, @) THEN @ ELSE Append(@, func),
                          !.called = <<>>, !.last = func]
    /\ call' = Call("connect", "none")
    /\ UNCHANGED <<robj, regions, sobj, sources, pc, todo, cur, probe>>

\* Signal.disconnect(func): self.__subscribers is a dict, and a dict has no
\* method remove: the statement in the try block raises AttributeError,
\* which "except ValueError" does not catch
SignalDisconnect(func) ==
    /\ pc = "idle"
    /\ func \notin gui.deleted
    /\ gui' = [gui EXCEPT !.called = <<>>, !.last = func]
    /\ call' = Call("disconnect", "AttributeError")
    /\ UNCHANGED <<robj, regions, sobj, sources, pc, todo, cur, probe>>

\* the object b is deleted while its method is still connected
SlotDeleted(func) ==
    /\ pc = "idle"
    /\ func \notin gui.deleted
    /\ InSeq(func, gui.subscribers)
    /\ gui' = [gui EXCEPT !.deleted = @ \cup {func}, !.called = <<>>, !.last = func]
    /\ call' = Call("del", "none")
    /\ UNCHANGED <<robj, regions, sobj, sources, pc, todo, cur, probe>>

NextSignal ==
    \/ \E func \in Slots : SignalConnect(func)
    \/ \E func \in Slots : SignalDisconnect(func)
    \/ \E arg \in EmitArgs : SignalEmit(arg)
    \/ SlotDeleted("b.f")

\* One Signal, the slots connected to it and the calls made on it.
SpecSignal == Init /\ [][NextSignal]_vars

\* ------------------------------------------------- guis/qt/scene.py, Scene

\* the graphical items are named after their elements: <<"Region", id>> and
\* <<"Source", id>> for the .g of a region and of a source.  The rays' items
\* have the source's item for parent and the handles the item they belong
\* to: items() lists them as long as the parent is in the graphical scene.
Item(kind, id) == <<kind, id>>

\* other.g exists: the regions and sources of the Qt backend create their
\* item in __init__; scene.background is a Region of the elements, without
HasG(kind, id) == ~(kind = "Region" /\ id = Background)

\* scene.g.items(): the items added, and the rays that are their children
GItems(st, items) ==
    items \cup UNION {{<<"Ray", it[2], i>> : i \in 1..Len(st.sobj[it[2]].rays)} :
                         it \in {x \in items : x[1] = "Source"}}

QtResult(r, items) == [st |-> r.st, items |-> items, err |-> r.err]

\* _GScene.addItem(other.g), after Scene.add of the elements returned r
QtAddItem(r, items, kind, id) ==
    IF r.err # "none" THEN QtResult(r, items)
    ELSE IF ~HasG(kind, id) THEN QtResult(Raise(r.st, "AttributeError"), items)
    ELSE IF Item(kind, id) \in items THEN QtResult(Raise(r.st, "ValueError"), items)
    ELSE QtResult(r, items \cup {Item(kind, id)})

\* guis.qt.scene.Scene.add(other), other a region or a source
QtAdd(st, items, kind, id) ==
    QtAddItem(add(st, kind, id, NoConfig), items, kind, id)

\* guis.qt.scene.Scene.remove(element): self.g.remove(element.g), that is
\* removeItem(item) and then the remove of the elements
QtRemove(q, kind, id) ==
    IF ~HasG(kind, id) THEN QtResult(Raise(q.st, "AttributeError"), q.items)
    ELSE QtResult(remove(q.st, kind, id), q.items \ {Item(kind, id)})

\* Scene.clear, inherited from the elements: its loops call the remove of
\* the Qt backend
RECURSIVE QtClearRegions(_, _)
QtClearRegions(q, i) ==
    IF q.err # "none" \/ i < 1 \/ i > Len(q.st.regions) THEN q
    ELSE QtClearRegions(QtRemove(q, "Region", q.st.regions[i]), i - 1)

RECURSIVE QtClearSources(_, _)
QtClearSources(q, i) ==
    IF q.err # "none" \/ i < 1 \/ i > Len(q.st.sources) THEN q
    ELSE QtClearSources(QtRemove(q, "Source", q.st.sources[i]), i - 1)

QtClearAfter(q) == QtClearSources(q, Len(q.st.sources))

QtClear(st, items) ==
    QtClearAfter(QtClearRegions(QtResult(Ok(st), items), Len(st.regions)))

\* the scene, the graphical items and the outcome that a call leaves
QtReturns(op, q) ==
    /\ SetScene(q.st)
    /\ gui' = [gui EXCEPT !.items = q.items]
    /\ call' = Call(op, q.err)

\* guis.qt.regions.Polycurve(n=n, scene=scene, tag=tag), then start,
\* add_line ..., close
QtNewPolycurve(t) ==
    /\ pc = "idle"
    /\ FreeRegions(St) # {}
    /\ QtReturns("new", QtAdd([St EXCEPT !.robj[Min(FreeRegions(St))] = Template(t)],
                              gui.items, "Region", Min(FreeRegions(St))))
    /\ UNCHANGED <<pc, todo, cur, probe>>

\* guis.qt.sources.SingleRay(line0=line0, s0=s0, scene=scene, tag=tag)
QtNewSingleRay(in) ==
    /\ pc = "idle"
    /\ FreeSources(St) # {}
    /\ QtReturns("new", QtAdd([St EXCEPT !.sobj[Min(FreeSources(St))] =
                                   SingleRay(in.line0, in.s0, in.tag)],
                              gui.items, "Source", Min(FreeSources(St))))
    /\ UNCHANGED <<pc, todo, cur, probe>>

\* scene.add(other) in the Qt backend
QtSceneAdd(kind, id) ==
    /\ pc = "idle"
    /\ QtReturns("add", QtAdd(St, gui.items, kind, id))
    /\ UNCHANGED <<pc, todo, cur, probe>>

\* scene.remove(element) in the Qt backend
QtSceneRemove(kind, id) ==
    /\ pc = "idle"
    /\ QtReturns("remove", QtRemove(QtResult(Ok(St), gui.items), kind, id))
    /\ UNCHANGED <<pc, todo, cur, probe>>

\* scene.clear() in the Qt backend
QtSceneClear ==
    /\ pc = "idle"
    /\ QtReturns("clear", QtClear(St, gui.items))
    /\ UNCHANGED <<pc, todo, cur, probe>>

NextQt ==
    \/ \E t \in {"W", "V"} : QtNewPolycurve(t)
    \/ \E in \in SingleRayInputs : QtNewSingleRay(in)
    \/ \E id \in BornRegions \cup {Background} : QtSceneAdd("Region", id)
    \/ \E id \in BornSources : QtSceneAdd("Source", id)
    \/ \E id \in BornRegions \cup {Background} : QtSceneRemove("Region", id)
    \/ \E id \in BornSources : QtSceneRemove("Source", id)
    \/ QtSceneClear

\* The scene of the Qt backend: the lists of the elements and the items of
\* the graphical scene.
SpecQt == Init /\ [][NextQt]_vars

\* ------------------------------------------------ the Ray instances of a Beam

\* the tags that mark Ray instances
RayTags == {"p", "q", "r", "s"}

\* beam.rays[i].set_tag(t), i from 1 here, with a tag no other ray of the
\* beam carries
RaySetTag(id, i, t) ==
    /\ pc = "idle"
    /\ sobj[id].born /\ sobj[id].Class = "Beam"
    /\ i \in 1..Len(sobj[id].rays)
    /\ \A j \in 1..Len(sobj[id].rays) : sobj[id].rays[j].tag # t
    /\ sobj' = [sobj EXCEPT ![id].rays[i].tag = t]
    /\ call' = Call("set_tag", "none")
    /\ UNCHANGED <<robj, regions, sources, pc, todo, cur, probe, gui>>

InitTag ==
    /\ robj = [i \in {Background} \cup RegionIds |->
                 IF i = Background THEN RegionObj("Region", I(1), NoTag, <<>>, <<>>)
                 ELSE NoRegion]
    /\ regions = <<>>
    /\ \E in \in BeamInputs :
          sobj = [i \in SourceIds |->
                    IF i = 1 THEN Beam(in.line_start, in.s_start, in.line_end, in.s_end,
                                       in.N_inter, in.tag)
                    ELSE NoSource]
    /\ sources = <<1>>
    /\ pc = "idle"
    /\ todo = <<>>
    /\ cur = NoCur
    /\ call = Call("new", "none")
    /\ probe = NoProbe
    /\ gui = NoGui

NextTag ==
    \/ \E id \in BornSources : \E args \in BeamSetArgs : BeamSetCall(id, args)
    \/ \E id \in BornSources : \E i \in 1..(MaxNInter + 3) : \E t \in RayTags :
          RaySetTag(id, i, t)

SpecTag == InitTag /\ [][NextTag]_vars

\* ------------------------------------------- configs of one category alone

Categories == {"Regions", "Sources"}

\* {category: scene.config[category]}: a mapping that holds one key
OnlyConfig(st, category) ==
    [k \in {category} |-> SceneConfigOf(st)[k]]

\* scene.add({category: scene.config[category]})
SceneAddOnly(category) ==
    /\ pc = "idle"
    /\ CanExport(St)
    /\ Fits(St, OnlyConfig(St, category))
    /\ Returns("add_only", add(St, "dict", 0, OnlyConfig(St, category)))
    /\ UNCHANGED <<pc, todo, cur, probe, gui>>

NextOnly ==
    \/ NewPolycurve("W")
    \/ \E in \in SingleRayInputs : NewSingleRay(in)
    \/ \E id \in BornRegions : SceneRemove("Region", id)
    \/ \E id \in BornSources : SceneRemove("Source", id)
    \/ \E category \in Categories : SceneAddOnly(category)

SpecOnly == Init /\ [][NextOnly]_vars

\* ---------------------------------------------------- the branch at a diopter

\* incoming directions, of norm 1 and not, towards and along the diopter
SnellDirections ==
    {Vector(I(1), I(0)), Vector(I(0), I(1)), Vector(Rat(3, 5), Rat(4, 5)),
     Vector(I(3), I(4)), Vector(I(-4), I(3)), Vector(I(0), I(-2)),
     Vector(Rat(-4, 5), Rat(-3, 5)), Vector(I(12), I(-5))}

\* the unit normals of the diopters; eT is the normal turned a quarter turn
SnellNormals ==
    {Vector(I(1), I(0)), Vector(I(-1), I(0)), Vector(I(0), I(1)), Vector(I(0), I(-1)),
     Vector(Rat(3, 5), Rat(4, 5)), Vector(Rat(-4, 5), Rat(3, 5))}

\* the indices of the two media, float("inf") among them
SnellIndices == {Rat(1, 2), I(1), Rat(4, 3), Rat(3, 2), I(2), I(100), Inf}

\* the lines of Ray.propagate from "u1N = u1 * eN" to the test
\* "if u2N2 >= 0", for a part of direction u1 and index n1 that meets a
\* diopter of normal eN towards a region of index n2.  The loop comes here
\* when region_ahead.n != current_region.n only.
SnellQuery(u1, eN, n1, n2) ==
    /\ pc = "idle"
    /\ probe = NoProbe
    /\ n1 # n2
    /\ probe' = [op |-> "snell", u1 |-> u1, eN |-> eN, n1 |-> n1, n2 |-> n2,
                 u2N2 |-> SnellU2N2(Dot(u1, eN), Dot(u1, normal(eN)), RatioSq(n2, n1))]
    /\ UNCHANGED <<robj, regions, sobj, sources, pc, todo, cur, call, gui>>

NextSnell ==
    \E u1 \in SnellDirections : \E eN \in SnellNormals : \E n1, n2 \in SnellIndices :
        SnellQuery(u1, eN, n1, n2)

SpecSnell == Init /\ [][NextSnell]_vars

\* ------------------------------------------------ queries of the geometry

\* the points and the search directions of the queries
ProbePoints == {Point(I(x), I(y)) : x \in {-13, 3, 5, 7, 21}, y \in {1, 4, 10}}
ProbeDirections ==
    {Vector(I(1), I(0)), Vector(I(0), I(1)), Vector(I(-1), I(0)), Vector(I(0), I(-1)),
     Vector(I(1), I(1)), Vector(I(-1), I(1)), Vector(I(1), I(-1)), Vector(I(-1), I(-1)),
     Vector(I(3), I(4))}

\* region.contains(point, u) for a region of the scene.  A query leaves the
\* scene as it is, so a behaviour makes one query and keeps its answer.
RegionContains(id, point, u) ==
    /\ pc = "idle"
    /\ probe = NoProbe
    /\ probe' = [op |-> "contains", region |-> id, line |-> Line(point, u),
                 inside |-> contains(robj[id], Line(point, u)), at |-> 0]
    /\ UNCHANGED <<robj, regions, sobj, sources, pc, todo, cur, call, gui>>

\* scene.region_at(point, u)
SceneRegionAt(point, u) ==
    /\ pc = "idle"
    /\ probe = NoProbe
    /\ probe' = [op |-> "region_at", region |-> 0, line |-> Line(point, u),
                 inside |-> FALSE, at |-> region_at(Line(point, u))]
    /\ UNCHANGED <<robj, regions, sobj, sources, pc, todo, cur, call, gui>>

\* the scenes: regions drawn after distinct shapes, in any order
ShapeLists ==
    {ts \in UNION {[1..k -> Shapes] : k \in 0..MaxRegions} :
        \A i, j \in DOMAIN ts : i # j => ts[i] # ts[j]}

InitGeom ==
    /\ \E ts \in ShapeLists :
        /\ robj = [i \in {Background} \cup RegionIds |->
                     IF i = Background THEN RegionObj("Region", I(1), NoTag, <<>>, <<>>)
                     ELSE IF i <= Len(ts) THEN Template(ts[i]) ELSE NoRegion]
        /\ regions = [i \in 1..Len(ts) |-> i]
    /\ sobj = [i \in SourceIds |-> NoSource]
    /\ sources = <<>>
    /\ pc = "idle"
    /\ todo = <<>>
    /\ cur = NoCur
    /\ call = Call("new", "none")
    /\ probe = NoProbe
    /\ gui = NoGui

NextGeom ==
    \/ \E id \in BornRegions : \E point \in ProbePoints : \E u \in ProbeDirections :
          RegionContains(id, point, u)
    \/ \E point \in ProbePoints : \E u \in ProbeDirections : SceneRegionAt(point, u)

\* The geometry alone: queries on scenes that the constructors build.
SpecGeom == InitGeom /\ [][NextGeom]_vars

\* ------------------------------------------------------ region_at, contains

\* the places in scene.regions of the regions that contain the point of
\* the query
ProbeHits == {k \in 1..Len(regions) : contains(robj[regions[k]], probe.line)}

\* C5: Scene.region_at returns the first region, in the order of
\* scene.regions, whose contains() is true, and scene.background when no
\* region contains the point; of overlapping regions the one added earlier
\* wins.
C5_RegionAtFirstInOrder ==
    probe.op = "region_at" =>
        IF ProbeHits = {} THEN probe.at = Background
        ELSE \E k \in ProbeHits :
                /\ \A j \in ProbeHits : k <= j
                /\ probe.at = regions[k]

\* a query at a point that two regions of the scene contain, answered with
\* the one added first
C5_Witness ==
    /\ probe.op = "region_at"
    /\ Cardinality(ProbeHits) >= 2
    /\ probe.at = regions[1]
    /\ probe.at # regions[Len(regions)]

\* the vector product of two vectors
Cross(a, b) == RSub(RMul(a.x, b.y), RMul(a.y, b.x))

\* on which side of the segment the point lies: positive to the left of
\* M1 -> M2, negative to the right, zero on its line
Side(seg, p) == Cross(Vector_M1M2(seg.M1, seg.M2), Vector_M1M2(seg.M1, p))

\* the point lies on the segment
OnSegment(seg, p) ==
    /\ Side(seg, p) = I(0)
    /\ ~RLt(Dot(Vector_M1M2(seg.M1, p), Vector_M1M2(seg.M1, seg.M2)), I(0))
    /\ ~RLt(Dot(Vector_M1M2(seg.M2, p), Vector_M1M2(seg.M2, seg.M1)), I(0))

\* for a convex closed polygon: the point is strictly inside when it lies
\* strictly on the same side of every edge, strictly outside when it is
\* neither inside nor on an edge
StrictlyInside(r, p) ==
    \/ \A i \in 1..Len(r.curves) : RGt(Side(r.curves[i], p), I(0))
    \/ \A i \in 1..Len(r.curves) : RLt(Side(r.curves[i], p), I(0))

StrictlyOutside(r, p) ==
    /\ ~StrictlyInside(r, p)
    /\ \A i \in 1..Len(r.curves) : ~OnSegment(r.curves[i], p)

\* the half-line of the query passes through a vertex of the boundary
ThroughVertex(r, line) ==
    \E i \in 1..Len(r.M) :
        /\ Cross(line.u, Vector_M1M2(line.p, r.M[i])) = I(0)
        /\ RGt(Dot(line.u, Vector_M1M2(line.p, r.M[i])), I(0))

RaysOfSources ==
    UNION {{<<src, i>> : i \in 1..Len(sobj[src].rays)} : src \in BornSources}
PartsOf(r) == sobj[r[1]].rays[r[2]].parts

\* while Ray.propagate is in its loop: the line of the last part, the
\* intersections ahead on it as the regions give them, and those of them
\* behind which the index is not the one of current_region
CurLine == CurParts[Len(CurParts)].line
Ahead == Intersections(robj, regions, CurLine)
Candidates ==
    {k \in 1..Len(Ahead) : robj[RegionAhead(CurLine, Ahead[k])].n # robj[cur.region].n}

\* the parts of that ray after the turn of the loop
PartsAfter == sobj'[cur.src].rays[cur.ray].parts

\* C1: Ray.propagate always terminates and the ray holds at least 1 and at
\* most 20 parts: the loop starts with a count of at most 20, every turn
\* lowers the count, which never goes below 0, and no ray ever holds fewer
\* than 1 or more than 20 parts.
C1_PropagateBounded ==
    /\ [](\A r \in RaysOfSources : Len(PartsOf(r)) >= 1 /\ Len(PartsOf(r)) <= 20)
    /\ [](pc = "loop" => cur.cont >= 1 /\ cur.cont <= 20)
    /\ [][pc = "loop" => cur'.cont < cur.cont /\ cur'.cont >= 0]_vars

\* a propagation has returned with a ray of 20 parts that never left its
\* region: it would bounce forever
C1_Witness ==
    /\ pc = "idle"
    /\ call.op = "propagate"
    /\ \E r \in RaysOfSources :
        /\ Len(PartsOf(r)) = 20
        /\ \A k \in 1..20 : PartsOf(r)[k].n = I(2)

\* C2: in each turn of the loop the diopter is the forward intersection
\* with the smallest s among those behind which (at s + margin) the index
\* differs from the index of current_region; the others are skipped; when
\* there is none the propagation stops and the parts are as they were.
C2_DiopterChoice ==
    [][pc = "loop" =>
        IF Candidates = {}
        THEN PartsAfter = CurParts /\ pc' # "loop"
        ELSE \E k \in Candidates :
                /\ RGt(Ahead[k].s, I(0))
                /\ \A j \in Candidates : ~RLt(Ahead[j].s, Ahead[k].s)
                /\ PartsAfter[Len(CurParts)].s = Ahead[k].s]_vars

\* the loop has cut the first part at a diopter that lies behind another
\* intersection, which it skipped
C2_Witness ==
    /\ pc = "loop"
    /\ Len(CurParts) = 2
    /\ \E k \in 1..Len(Intersections(robj, regions, CurParts[1].line)) :
          RLt(Intersections(robj, regions, CurParts[1].line)[k].s, CurParts[1].s)

\* what the loop finds on the line of the last part
CurDiopter == FindDiopter(SortedIntersections(CurLine), CurLine, cur.region)

\* u2N ** 2 at that diopter
CurU2N2 ==
    SnellU2N2(Dot(CurLine.u, CurDiopter.i.eN), Dot(CurLine.u, CurDiopter.i.eT),
              RatioSq(robj[CurDiopter.region2].n, CurParts[Len(CurParts)].n))

\* C3: at a diopter, when u2N^2 >= 0 the appended part carries the n of the
\* downstream region, which becomes current_region; when u2N^2 < 0 the
\* appended part carries the n of the part just cut and current_region
\* stays.
C3_RefractionOrReflection ==
    [][(pc = "loop" /\ CurDiopter.found /\ cur.cont > 1) =>
        /\ Len(PartsAfter) = Len(CurParts) + 1
        /\ IF ~RLt(CurU2N2, I(0))
           THEN /\ PartsAfter[Len(PartsAfter)].n = robj[CurDiopter.region2].n
                /\ cur'.region = CurDiopter.region2
           ELSE /\ PartsAfter[Len(PartsAfter)].n = CurParts[Len(CurParts)].n
                /\ cur'.region = cur.region]_vars

\* a ray that was refracted into a region and then reflected inside it
C3_Witness ==
    /\ pc = "loop"
    /\ Len(CurParts) = 3
    /\ CurParts[1].n # CurParts[2].n
    /\ CurParts[2].n = CurParts[3].n
    /\ cur.region # Background

\* C4: when the count reaches zero at a diopter (the 20th of the call) the
\* current part is cut there and no part is appended: the ray ends with
\* exactly 20 parts, the last one of finite length.
C4_CapCutsWithoutAppend ==
    [][(pc = "loop" /\ cur.cont = 1 /\ CurDiopter.found) =>
        /\ Len(PartsAfter) = 20
        /\ Len(CurParts) = 20
        /\ PartsAfter[20].s = CurDiopter.i.s
        /\ IsNum(PartsAfter[20].s)
        /\ pc' # "loop"]_vars

\* a propagation has returned with a ray of 20 parts, the last one finite
C4_Witness ==
    /\ pc # "loop"
    /\ \E r \in RaysOfSources :
        /\ Len(PartsOf(r)) = 20
        /\ IsNum(PartsOf(r)[20].s)
        /\ \A k \in 1..19 : IsNum(PartsOf(r)[k].s)

\* ------------------------------------------------------------------- Scene

NoDuplicate(seq) == \A i, j \in 1..Len(seq) : i # j => seq[i] # seq[j]

\* C7: no Region instance appears twice in scene.regions and no Source
\* instance twice in scene.sources; an add of an instance that is already
\* in its list fails with ValueError and leaves the scene as it was.
C7_NoDuplicates ==
    /\ NoDuplicate(regions)
    /\ NoDuplicate(sources)
    /\ \A i \in 1..Len(regions) :
          add(St, "Region", regions[i], NoConfig) = Raise(St, "ValueError")
    /\ \A i \in 1..Len(sources) :
          add(St, "Source", sources[i], NoConfig) = Raise(St, "ValueError")

\* an add was rejected as a duplicate, with regions and sources in the scene
C7_Witness ==
    /\ call = Call("add", "ValueError")
    /\ regions # <<>>
    /\ sources # <<>>

\* C8: scene.background is not an element of scene.regions.
C8_BackgroundNotInRegions == ~InSeq(Background, regions)

C10_ConfigRoundTrip ==
    /\ \A id \in BornSources :
          SourceConfig(SourceFromConfig(SourceConfig(sobj[id]))) = SourceConfig(sobj[id])
    /\ (CanExport(St) /\ Fits(St, SceneConfigOf(St))) =>
          SceneConfigOf(set_config(St, SceneConfigOf(St)).st) = SceneConfigOf(St)

\* the scene that Gui.load_file leaves
AfterLoad == [robj |-> robj', regions |-> regions', sobj |-> sobj', sources |-> sources']

\* C11: when Gui.load_file fails while parsing or constructing an item, with
\* reset_scene True or False, scene.config after the call equals
\* scene.config before the call.
C11_LoadRollsBack ==
    [][call'.op = "load_file" /\ call'.err = "rollback" =>
          SceneConfigOf(AfterLoad) = SceneConfigOf(St)]_vars

\* ---------------------------------------------------------------- translate

\* the sum x + dx is a float: the addition does not round
ExactSum(p, d) == FAdd(p.x, d.x) = RAdd(p.x, d.x) /\ FAdd(p.y, d.y) = RAdd(p.y, d.y)

\* no addition of the translation rounds, on the points the config exports
ExactRegionMove(r, d) ==
    \A i \in 1..Len(r.curves) : ExactSum(r.curves[i].M1, d) /\ ExactSum(r.curves[i].M2, d)
ExactSourceMove(src, d) ==
    \A i \in 1..Len(src.rays) : \A k \in 1..Len(src.rays[i].parts) :
        ExactSum(src.rays[i].parts[k].line.p, d)

\* there and back
RegionThereAndBack(r, d) == translate(translate(r, d.x, d.y), RNeg(d.x), RNeg(d.y))
SourceThereAndBack(src, d) ==
    SourceTranslate(SourceTranslate(src, d.x, d.y), RNeg(d.x), RNeg(d.y))

\* C12 as stated: for every element that supports translate, translate(dx,
\* dy) followed by translate(-dx, -dy) restores a config equal to the
\* original one, and a translate with a non-zero displacement yields a
\* config different from the original.
C12_TranslateRoundTrip ==
    /\ \A id \in BornRegions : \A d \in Displacements :
          /\ PolycurveConfig(RegionThereAndBack(robj[id], d)) = PolycurveConfig(robj[id])
          /\ PolycurveConfig(translate(robj[id], d.x, d.y)) # PolycurveConfig(robj[id])
    /\ \A id \in BornSources : \A d \in Displacements :
          /\ SourceConfig(SourceThereAndBack(sobj[id], d)) = SourceConfig(sobj[id])
          /\ SourceConfig(SourceTranslate(sobj[id], d.x, d.y)) # SourceConfig(sobj[id])

\* C12, amended: for a Polycurve with at least one curve and for a source
\* with its rays, when no addition of the translation rounds (the sums
\* x + dx and y + dy are floats), translate(dx, dy) followed by
\* translate(-dx, -dy) restores a config equal to the original one, and a
\* translate with a non-zero displacement yields a config different from
\* the original.
C12_TranslateRoundTripExact ==
    /\ \A id \in BornRegions : \A d \in Displacements :
          (robj[id].curves # <<>> /\ ExactRegionMove(robj[id], d)) =>
              /\ PolycurveConfig(RegionThereAndBack(robj[id], d)) = PolycurveConfig(robj[id])
              /\ PolycurveConfig(translate(robj[id], d.x, d.y)) # PolycurveConfig(robj[id])
    /\ \A id \in BornSources : \A d \in Displacements :
          ExactSourceMove(sobj[id], d) =>
              /\ SourceConfig(SourceThereAndBack(sobj[id], d)) = SourceConfig(sobj[id])
              /\ SourceConfig(SourceTranslate(sobj[id], d.x, d.y)) # SourceConfig(sobj[id])

\* a Polycurve with an Arc has been moved away from where it was drawn, to
\* a place from where a displacement and its opposite add without rounding
C12_Witness ==
    /\ call.op = "translate"
    /\ \E id \in BornRegions :
        /\ \E i \in 1..Len(robj[id].curves) :
              /\ robj[id].curves[i].Class = "Arc"
              /\ robj[id].curves[i].C = Point(I(8), Rat(-11, 2))
        /\ \E d \in Displacements :
              /\ ExactRegionMove(robj[id], d)
              /\ PolycurveConfig(RegionThereAndBack(robj[id], d)) = PolycurveConfig(robj[id])
              /\ PolycurveConfig(translate(robj[id], d.x, d.y)) # PolycurveConfig(robj[id])

\* ------------------------------------------------- the index of the last part

\* Scene.propagate has returned and the scene is as it was during the call
Propagated == pc = "idle" /\ call.op = "propagate"

\* the ray starts in the background
StartsInBackground(r) == region_at(PartsOf(r)[1].line) = Background

\* the propagation of the ray ended at the cap: 20 parts, the last one cut
CutAtCap(r) == Len(PartsOf(r)) = 20 /\ IsNum(PartsOf(r)[20].s)

\* the last part of the ray
LastPart(r) == PartsOf(r)[Len(PartsOf(r))]

\* no part of the ray lies on a line through a vertex of a region of the
\* scene
OffVertices(r) ==
    \A k \in 1..Len(PartsOf(r)) : \A i \in 1..Len(regions) :
        ~ThroughVertex(robj[regions[i]], PartsOf(r)[k].line)

ChangedRays == {r \in RaysOfSources : sobj'[r[1]].rays[r[2]] # sobj[r[1]].rays[r[2]]}

\* the ray Ray.propagate is called on, or is working on, in this step
RayAtWork == IF pc = "next" THEN {Head(todo)}
             ELSE IF pc = "loop" THEN {<<cur.src, cur.ray>>} ELSE {}

\* a source but for the parts of its rays
SourceFrame(src) ==
    [Class |-> src.Class, tag |-> src.tag, born |-> src.born, N_inter |-> src.N_inter,
     rays |-> [i \in 1..Len(src.rays) |-> src.rays[i].tag]]

\* a step of Scene.propagate: the call itself or a step of one of its
\* Ray.propagate
PropagateStep == pc # "idle" \/ pc' # "idle" \/ call'.op = "propagate"

\* the list of rays Scene.propagate was given: all of them, sources in the
\* order of scene.sources and the rays of a source in the order of its list,
\* or one ray
GivenAll == todo' = RaysOf(sobj, sources)
GivenOne == \E r \in RaysOfSources : todo' = <<r>>

\* the step that ends the Ray.propagate of a ray
RayDone == pc = "loop" /\ pc' # "loop"

\* C14: Scene.propagate(rays) changes only the parts of the rays it is
\* given, one after the other in the order of the list (all the rays, in
\* source-list then ray-list order, when no list is given); it changes
\* neither scene.regions nor scene.sources, nor the geometry or index of a
\* region, nor the parts of a ray that is not in the list; and what it
\* leaves in a ray is what Ray.propagate gives on that ray alone in the
\* scene, whatever the other rays and the order.
C14_PropagateFrame ==
    [][PropagateStep =>
        /\ robj' = robj /\ regions' = regions /\ sources' = sources
        /\ \A src \in SourceIds : SourceFrame(sobj'[src]) = SourceFrame(sobj[src])
        /\ ChangedRays \subseteq RayAtWork
        /\ pc = "idle" => (GivenAll \/ GivenOne)
        /\ pc = "next" => todo' = Tail(todo) /\ cur'.src = Head(todo)[1] /\ cur'.ray = Head(todo)[2]
        /\ pc = "loop" => todo' = todo
        /\ RayDone => PartsAfter = Ray_propagate(<<PartsAfter[1]>>)
      ]_vars

\* one ray of a scene of several rays has been propagated through a diopter,
\* while another ray of the scene has never been propagated
C14_Witness ==
    /\ pc = "idle" /\ call.op = "propagate"
    /\ \E r, q \in RaysOfSources :
        /\ r # q
        /\ Len(PartsOf(r)) >= 2
        /\ Len(PartsOf(q)) = 1 /\ PartsOf(q)[1].n = None

\* ----------------------------------------------------- the rays of a Beam

Beams == {id \in BornSources : sobj[id].Class = "Beam"}

\* C15: a Beam always holds N_inter + 2 rays: after its construction, after
\* from_config, and after any sequence of Beam.set calls, with or without
\* an N_inter >= 0.
C15_BeamRays ==
    \A id \in Beams : sobj[id].N_inter >= 0 /\ Len(sobj[id].rays) = sobj[id].N_inter + 2

\* Beam.set has taken rays out of a Beam, down to the first and the last,
\* beside a Beam that from_config built and that holds more rays than the
\* constructor gave
C15_Witness ==
    /\ call.op = "set"
    /\ \E id, other \in Beams :
        /\ sobj[id].N_inter = 0 /\ Len(sobj[id].rays) = 2
        /\ InSeq(other, sources) /\ ~InSeq(id, sources)
        /\ sobj[other].N_inter = MaxNInter + 1 /\ Len(sobj[other].rays) = MaxNInter + 3

\* ------------------------------------------------ propagation and exceptions

\* C16: propagation never raises: in every scene reached through the
\* constructors, the builder operations of Polycurve and Scene.add/remove
\* (the empty scene and a scene with sources and no region among them),
\* Scene.propagate() completes and ends by policy, never by an error.
C16_PropagateNeverRaises == call.op = "propagate" => call.err = "none"

\* ------------------------------------------------- scene.add(scene.config)

\* seq is the start of longer
IsPrefix(seq, longer) == Len(seq) <= Len(longer) /\ SubSeq(longer, 1, Len(seq)) = seq

\* C17: Scene.add(scene.config) merges instead of replacing: it appends one
\* new region per region and one new source per source of the scene, so
\* that both counts double, and the instances present before the call stay
\* in the lists, in the same order, ahead of the new ones.
C17_AddConfigDoubles ==
    [][SceneAddConfig =>
        /\ call'.err = "none"
        /\ Len(regions') = 2 * Len(regions) /\ Len(sources') = 2 * Len(sources)
        /\ IsPrefix(regions, regions') /\ IsPrefix(sources, sources')
        /\ \A i \in 1..Len(regions) : robj'[regions[i]] = robj[regions[i]]
        /\ \A i \in 1..Len(sources) : sobj'[sources[i]] = sobj[sources[i]]
      ]_vars

\* ------------------------------------------------------------ M in arc

\* the angle of the point of the query, seen from the centre of the arc
ProbeTheta == theta_x(Vector_M1M2(probe.arc.C, probe.M))

\* the angle lies strictly inside the sweep of the arc from theta1 to
\* theta2, in the sense the arc is drawn
RECURSIVE Turn(_)
Turn(a) == IF RLt(a, I(0)) THEN Turn(RAdd(a, I(4))) ELSE IF ~RLt(a, I(4)) THEN Turn(RSub(a, I(4))) ELSE a
InSweep(arc, theta) ==
    IF arc.ccw
    THEN /\ RGt(Turn(RSub(theta, arc.theta1)), I(0))
         /\ RLt(Turn(RSub(theta, arc.theta1)), Turn(RSub(arc.theta2, arc.theta1)))
    ELSE /\ RGt(Turn(RSub(arc.theta1, theta)), I(0))
         /\ RLt(Turn(RSub(arc.theta1, theta)), Turn(RSub(arc.theta1, arc.theta2)))

\* C18: M in arc is "the angle of M lies in the range that the branch
\* tests" XOR ccw: in the tested range the answer is (not ccw), outside it
\* the answer is ccw; and so an arc, drawn clockwise or counter-clockwise,
\* gives exactly one intersection ahead for a line that crosses it once.
C18_ArcContainsXor ==
    /\ probe.op = "arc_contains" =>
          (probe.answer = "True") = (InTestedRange(probe.arc, ProbeTheta) # probe.arc.ccw)
    /\ (probe.op = "arc_intersection" /\ probe.line \in CentreLines
            /\ InSweep(probe.arc, theta_x(probe.line.u))) =>
          Len(probe.hits) = 1

\* ------------------------------------------------- intersections ahead only

\* C19: for every kind of boundary (Line, Segment, Arc, Polycurve),
\* intersection(line, sign_of_s=1) returns only intersections whose s along
\* the line is strictly positive: a hit at s = 0, the origin of the line,
\* or behind it is never returned, for an Arc as for a Segment.
C19_OnlyAhead ==
    probe.op \in {"arc_intersection", "intersection"} =>
        \A k \in 1..Len(probe.hits) : RGt(probe.hits[k].s, I(0))

\* ------------------------------------------------- the start of Ray.propagate

\* the source as its constructor made it, and the length its constructor
\* gave to the ray at work
SourceAsBuilt(src) ==
    CHOOSE o \in InitSources : o.Class = src.Class /\ o.tag = src.tag
OriginalLength == SourceAsBuilt(sobj[cur.src]).rays[cur.ray].parts[1].s
OriginalLine == SourceAsBuilt(sobj[cur.src]).rays[cur.ray].parts[1].line

\* Ray.propagate has done its first statements and no turn of its loop
JustStarted == pc = "loop" /\ cur.cont = MaxCont

\* C20: every call of Ray.propagate starts from scratch: parts is reset to
\* a single Part with the starting line of the ray, the original length of
\* the ray (the one it had before any propagation, not one that an earlier
\* propagate cut) and current_region.n; this holds for any sequence of
\* propagate calls and changes of the scene in between.
C20_StartsFromScratch ==
    JustStarted => CurParts = <<Part(OriginalLine, OriginalLength, robj[cur.region].n)>>

\* ------------------------------------------------- the chain of the curves

Drawn == robj[1]

\* every curve starts where the previous one ends
Chained(curves) ==
    \A i \in 2..Len(curves) : curves[i].M1 = curves[i - 1].M2

\* the last curve ends at the first curve's starting point
Looped(curves) ==
    curves # <<>> => curves[Len(curves)].M2 = curves[1].M1

\* C21: after any sequence of Polycurve.start, add_line, add_arc, translate
\* and close, every curve starts where the previous one ends, and when
\* close() has just returned the last curve ends at the starting point of
\* the first curve.
C21_ConnectedChain ==
    /\ Chained(Drawn.curves)
    /\ call.op = "close" => Looped(Drawn.curves)

\* ------------------------------------------------- the vertices and the curves

\* the vertex list and the curves agree: M[i] is where curve i starts
VerticesAgree(r) ==
    \A i \in (1..Len(r.curves)) \cap (1..Len(r.M)) : r.M[i] = r.curves[i].M1

\* C22: Polycurve.translate moves every vertex of M and every curve by the
\* same displacement: when translate has just returned, M[i] equals
\* curves[i].M1 for every curve i.
C22_TranslateKeepsVertices ==
    call.op = "translate" => VerticesAgree(Drawn)

\* ------------------------------------------------------------------- Signal

\* the number of calls of the slot func in the last emit
CallsOf(func) == Cardinality({i \in 1..Len(gui.called) : gui.called[i][1] = func})

\* C24: emit() calls every connected slot exactly once with the emitted
\* arguments, and disconnect(f) completes without raising and leaves f
\* disconnected, for any sequence of connect, disconnect and emit.
C24_SignalSlots ==
    /\ (call.op = "emit" /\ gui.deleted = {}) =>
          /\ call.err = "none"
          /\ \A func \in Slots :
                CallsOf(func) = IF InSeq(func, gui.subscribers) THEN 1 ELSE 0
          /\ \A i \in 1..Len(gui.called) : gui.called[i][2] = gui.last
    /\ call.op = "disconnect" =>
          /\ call.err = "none"
          /\ ~InSeq(gui.last, gui.subscribers)

\* -------------------------------------------------------------- Scene.clear

\* C23: after Scene.clear(), scene.regions and scene.sources are both empty,
\* whatever they held before the call, and in the Qt backend the graphical
\* scene holds no item.
C23_ClearEmpties ==
    call.op = "clear" =>
        /\ regions = <<>>
        /\ sources = <<>>
        /\ GItems(St, gui.items) = {}

\* ------------------------------------------------------- the path of a ray

\* each part but the last has a finite length that is not negative, and the
\* next part starts at its end point
Continuous(parts) ==
    \A i \in 1..(Len(parts) - 1) :
        /\ IsNum(parts[i].s)
        /\ ~RLt(parts[i].s, I(0))
        /\ parts[i + 1].line.p = LinePoint(parts[i].line, parts[i].s)

AllRays == {<<src, i>> : src \in BornSources, i \in 1..(MaxNInter + 3)}
RaysBorn == {x \in AllRays : x[2] <= Len(sobj[x[1]].rays)}
RayParts(x) == sobj[x[1]].rays[x[2]].parts

\* C25: the parts of every ray form a continuous path, after every
\* Ray.propagate and after every turn of its loop: each part except the last
\* has a finite, non-negative length, the next part starts exactly at its
\* end point, and a part of infinite length is the last one.
C25_ContinuousPath ==
    \A x \in RaysBorn : Continuous(RayParts(x))

\* a propagation has ended with a ray of three parts or more whose last part
\* is infinite
C25_Witness ==
    /\ pc = "idle"
    /\ call.op = "propagate"
    /\ \E x \in RaysBorn :
          /\ Len(RayParts(x)) >= 3
          /\ RayParts(x)[Len(RayParts(x))].s = Inf

\* ------------------------------------------------- the indices of the parts

\* the index of scene.background and of the regions of the scene
SceneIndices == {robj[Background].n} \cup {robj[regions[i]].n : i \in 1..Len(regions)}

\* the rays of the sources of the scene
RaysInScene == {x \in RaysBorn : InSeq(x[1], sources)}

\* C26: at the start of every turn of the loop of Ray.propagate the n of
\* the last part is the n of current_region; when Scene.propagate has
\* ended, parts[0].n of every ray is the n of region_at(starting line) and
\* the n of every part is the index of scene.background or of a region of
\* scene.regions.
C26_PartIndices ==
    /\ pc = "loop" => CurParts[Len(CurParts)].n = robj[cur.region].n
    /\ (pc = "idle" /\ call = Call("propagate", "none")) =>
          \A x \in RaysInScene :
              /\ RayParts(x)[1].n = robj[region_at(RayParts(x)[1].line)].n
              /\ \A i \in 1..Len(RayParts(x)) : RayParts(x)[i].n \in SceneIndices

\* a propagation has ended with a ray that was refracted into a region of
\* the scene, reflected inside it, and refracted back into the background
C26_Witness ==
    /\ pc = "idle"
    /\ call = Call("propagate", "none")
    /\ \E x \in RaysInScene : \E i \in 2..(Len(RayParts(x)) - 1) :
          /\ RayParts(x)[i].n = RayParts(x)[i - 1].n
          /\ RayParts(x)[i].n # robj[Background].n
          /\ RayParts(x)[1].n = robj[Background].n
          /\ RayParts(x)[Len(RayParts(x))].n = robj[Background].n

\* ------------------------------------------------------ propagating twice

\* C27: on an unchanged scene Ray.propagate is idempotent: when a
\* propagation has returned, propagating any ray of the scene once more
\* gives the parts it already has (same number, lines, lengths, indices).
C27_PropagateIdempotent ==
    (pc = "idle" /\ call = Call("propagate", "none")) =>
        \A x \in RaysInScene : Ray_propagate(RayParts(x)) = RayParts(x)

\* a propagation has returned with a ray of several parts whose first part
\* was cut shorter than the length it was built with
C27_Witness ==
    /\ pc = "idle"
    /\ call = Call("propagate", "none")
    /\ \E x \in RaysInScene :
          /\ Len(RayParts(x)) >= 3
          /\ RLt(RayParts(x)[1].s, I(50))

\* ------------------------------------------- the Ray instances Beam.set keeps

\* the tags of the marked rays of a list, in the order of the list
RECURSIVE Marks(_)
Marks(rays) ==
    IF rays = <<>> THEN <<>>
    ELSE IF Head(rays).tag = NoTag THEN Marks(Tail(rays))
    ELSE <<Head(rays).tag>> \o Marks(Tail(rays))

\* a is b without some of its elements, the others in the same order
RECURSIVE IsSubsequence(_, _)
IsSubsequence(a, b) ==
    IF a = <<>> THEN TRUE
    ELSE IF b = <<>> THEN FALSE
    ELSE IF Head(a) = Head(b) THEN IsSubsequence(Tail(a), Tail(b))
    ELSE IsSubsequence(a, Tail(b))

AllMarked(rays) == \A i \in 1..Len(rays) : rays[i].tag # NoTag

\* what Beam.set leaves of the rays old: new
SetKeepsEnds(old, new) ==
    /\ new[1].tag = old[1].tag
    /\ new[Len(new)].tag = old[Len(old)].tag
    /\ IsSubsequence(Marks(new), Marks(old))
    /\ Len(new) >= Len(old) => Marks(new) = Marks(old)
    /\ Len(new) <= Len(old) =>
          \A i \in 1..Len(new) : new[i].tag = NoTag => \E j \in 1..Len(old) : old[j].tag = NoTag
    /\ (AllMarked(old) /\ Len(new) < Len(old)) =>
          /\ AllMarked(new)
          /\ Len(Marks(new)) = Len(new)

\* C28: Beam.set(N_inter=k), k >= 0 or not given, keeps the first and the
\* last Ray instance of the beam as first and last element of beam.rays
\* and adds or removes rays in between only; the rays that stay keep their
\* relative order.  The instances are told apart by their tags.
C28_SetKeepsEnds ==
    [][call'.op = "set" =>
         \A id \in Beams : SetKeepsEnds(sobj[id].rays, sobj'[id].rays)]_vars

\* Beam.set has taken one of two rays in between out of a beam whose four
\* rays were all marked, and has put a new one in again
C28_Witness ==
    /\ call.op = "set"
    /\ Len(sobj[1].rays) = 4
    /\ Len(Marks(sobj[1].rays)) = 3
    /\ sobj[1].rays[1].tag # NoTag
    /\ sobj[1].rays[2].tag # NoTag
    /\ sobj[1].rays[4].tag # NoTag

\* ------------------------------------------------ a config of one category

\* the number of items a config lists for a category, none when the key
\* is missing
Listed(config, category) ==
    IF category \in DOMAIN config THEN Len(config[category]) ELSE 0

\* C29: Scene.add(config) with a mapping that holds only one of the keys
\* 'Regions' and 'Sources' completes without error and adds the items the
\* mapping lists, the missing category counting as empty.
C29_OneCategory ==
    [][\A category \in Categories :
          SceneAddOnly(category) =>
             /\ call'.err = "none"
             /\ Len(regions') = Len(regions) + Listed(OnlyConfig(St, category), "Regions")
             /\ Len(sources') = Len(sources) + Listed(OnlyConfig(St, category), "Sources")
      ]_vars

\* ------------------------------------------------- reflection and the indices

\* C30: total internal reflection is chosen only towards a strictly lower
\* index: for every incoming direction, of norm 1 or not, and every
\* orientation of the diopter, if n2 >= n1 > 0 then u2N^2 >= 0 and the
\* refraction branch is taken.
C30_ReflectionOnlyDownwards ==
    (probe.op = "snell" /\ float_ge(probe.n2, probe.n1) /\ RGt(probe.n1, I(0))) =>
        /\ float_ge(probe.u2N2, I(0))
        /\ Refracts(probe.u2N2)

\* C30, amended: if n2 >= n1 > 0 and (n2 / n1) ** 2 is a finite float, then
\* u2N^2 >= 0 and the refraction branch is taken, for every incoming
\* direction, of norm 1 or not, and every orientation of the diopter.
C30_ReflectionOnlyDownwardsFinite ==
    (/\ probe.op = "snell"
     /\ float_ge(probe.n2, probe.n1) /\ RGt(probe.n1, I(0))
     /\ IsNum(RatioSq(probe.n2, probe.n1))) =>
        /\ float_ge(probe.u2N2, I(0))
        /\ Refracts(probe.u2N2)

\* a direction of norm 5 meets a diopter obliquely on its way from index 1
\* to index 4/3, and is refracted: u2N^2 = (7/9) 16 + (16/9) 9
C30_Witness ==
    /\ probe.op = "snell"
    /\ probe.u1 = Vector(I(3), I(4))
    /\ probe.eN = Vector(I(-1), I(0))
    /\ probe.n1 = I(1) /\ probe.n2 = Rat(4, 3)
    /\ probe.u2N2 = Rat(256, 9)
    /\ Refracts(probe.u2N2)
====
